---- MODULE Spec2Model ----
(***************************************************************************)
(* Forecasting and anomaly-detection engine of the PMO dashboard           *)
(* (src/app.py, src/utils/*.py).                                           *)
(*                                                                         *)
(* Numbers are exact rationals <<n, d>> with d > 0 in lowest terms.        *)
(* <<0, 0>> is NaN (a cell present in the table but empty) and << >> is a  *)
(* column that the table does not have, or Python's None.  Dates are       *)
(* rationals counted in days; timedelta.days is the floor.                 *)
(***************************************************************************)
EXTENDS Integers, Sequences, FiniteSets, TLC

\* ------------------------------------------------------------------------
\* Rational arithmetic (Python / numpy float arithmetic, taken as exact)
\* ------------------------------------------------------------------------
Abs(x) == IF x < 0 THEN -x ELSE x

RECURSIVE GCD(_, _)
GCD(a, b) == IF b = 0 THEN a ELSE GCD(b, a % b)

Rat(n, d) ==
    LET g == GCD(Abs(n), Abs(d))
        s == IF d < 0 THEN -1 ELSE 1
    IN  <<(s * n) \div g, (s * d) \div g>>

NaN == <<0, 0>>
Absent == << >>
None == << >>

IsAbsent(x) == x = Absent
IsNaN(x) == x # Absent /\ x[2] = 0
\* pd.isnull on a cell that exists
isnull(x) == IsNaN(x)
\* a usable number
IsNum(x) == x # Absent /\ x[2] > 0

R(n) == <<n, 1>>
Zero == R(0)
One == R(1)

RAdd(a, b) == IF IsNaN(a) \/ IsNaN(b) THEN NaN
              ELSE Rat(a[1] * b[2] + b[1] * a[2], a[2] * b[2])
RNeg(a) == IF IsNaN(a) THEN NaN ELSE <<-a[1], a[2]>>
RSub(a, b) == RAdd(a, RNeg(b))
RMul(a, b) == IF IsNaN(a) \/ IsNaN(b) THEN NaN
              ELSE Rat(a[1] * b[1], a[2] * b[2])
\* the divisor is never zero where the code divides (guards are modelled)
RDiv(a, b) == IF IsNaN(a) \/ IsNaN(b) \/ b[1] = 0 THEN NaN
              ELSE Rat(a[1] * b[2], a[2] * b[1])
\* comparisons with NaN are False, as in IEEE arithmetic
RLt(a, b) == ~IsNaN(a) /\ ~IsNaN(b) /\ a[1] * b[2] < b[1] * a[2]
RLe(a, b) == ~IsNaN(a) /\ ~IsNaN(b) /\ a[1] * b[2] <= b[1] * a[2]
RGt(a, b) == RLt(b, a)
RGe(a, b) == RLe(b, a)
\* Python's max(a, b): b replaces a only when b > a
RMax(a, b) == IF RGt(b, a) THEN b ELSE a
RMin(a, b) == IF RLt(b, a) THEN b ELSE a
\* timedelta.days and int() of a non-negative number: the floor
Floor(a) == a[1] \div a[2]
Days(a) == R(Floor(a))

\* int(): truncation toward zero
Trunc(a) == IF a[1] < 0 THEN -((-a[1]) \div a[2]) ELSE a[1] \div a[2]

\* ------------------------------------------------------------------------
\* State
\* ------------------------------------------------------------------------
VARIABLES
    project,            \* the project row handed to a forecaster
    tasks,              \* the tasks of that project (tasks_df rows)
    history,            \* the history rows of that project, in table order
    now,                \* datetime.now(), in days
    spi_threshold,      \* st.session_state.spi_threshold
    cpi_threshold,      \* st.session_state.cpi_threshold
    forecast_horizon,   \* st.session_state.forecast_horizon
    op,                 \* the function that produced result, "idle" before
    result,             \* what the call returned
    projects_df,        \* st.session_state.projects_df: rows in table order
    history_df,         \* st.session_state.history_df: rows in table order
    metrics_df,         \* the metric matrix handed to the anomaly detector
    contamination,      \* the contamination handed to the anomaly detector
    np_random,          \* the state of numpy's global random generator
    first_call,         \* the first anomaly detection of the session
    data_loaded,        \* st.session_state.data_loaded
    tasks_df,           \* st.session_state.tasks_df: rows in table order
    project_forecasts,  \* st.session_state.project_forecasts, by project_id
    forecast_generated_at   \* st.session_state.forecast_generated_at

\* the inputs of one forecaster call
finputs == <<project, tasks, history, now, forecast_horizon>>
\* the session's tables
tables == <<projects_df, history_df>>
thresholds == <<spi_threshold, cpi_threshold>>
\* what the anomaly detector reads, and the record of what it returned
detector == <<metrics_df, contamination, np_random, first_call>>

\* the loaded flag, the task table and the forecast cache of the session
session == <<data_loaded, tasks_df, project_forecasts, forecast_generated_at>>

vars == <<project, tasks, history, now, spi_threshold, cpi_threshold,
          forecast_horizon, op, result, projects_df, history_df,
          metrics_df, contamination, np_random, first_call,
          data_loaded, tasks_df, project_forecasts, forecast_generated_at>>

\* ------------------------------------------------------------------------
\* forecast_project_completion (src/app.py)
\* ------------------------------------------------------------------------
SpiSignificantMsg == "Schedule performance is significantly below threshold"
SpiBelowMsg == "Schedule performance is below threshold"
CpiSignificantMsg == "Cost performance is significantly below threshold"
CpiBelowMsg == "Cost performance is below threshold"
SignificantDelayMsg == "Significant delay"
ModerateDelayMsg == "Moderate delay"
SignificantOverrunMsg == "Significant budget overrun"
ModerateOverrunMsg == "Moderate budget overrun"
HighRiskCountMsg == "High number of risks"

Tenth == Rat(1, 10)
Half == Rat(1, 2)

\* fpc_schedule counting the current day as elapsed
fpc_schedule_day_counted(p, today) ==
    IF IsNum(p.planned_end) /\ IsNum(p.planned_start)
       /\ IsNum(p.spi) /\ RGt(p.spi, Zero)
    THEN LET planned_duration == Days(RSub(p.planned_end, p.planned_start))
             elapsed_days == IF RLt(today, p.planned_start) THEN Zero
                             ELSE RAdd(Days(RSub(today, p.planned_start)), One)
             remaining_duration ==
                 RMax(Zero, RDiv(RSub(planned_duration, elapsed_days), p.spi))
             forecast_completion_date ==
                 RAdd(p.planned_start, RAdd(elapsed_days, remaining_duration))
         IN  [forecast_completion_date |-> forecast_completion_date,
              schedule_variance_days |->
                  Days(RSub(forecast_completion_date, p.planned_end)),
              completion_confidence |->
                  IF RLe(p.spi, One) THEN R(Trunc(RMul(R(70), p.spi)))
                  ELSE R(70),
              remaining_duration |-> remaining_duration]
    ELSE [forecast_completion_date |-> None,
          schedule_variance_days |-> Zero,
          completion_confidence |-> Zero,
          remaining_duration |-> None]

\* lines 1972-2008: the schedule part of the forecast; remaining_duration is
\* the local of that name, kept for inspection
fpc_schedule(p, today) ==
    IF IsNum(p.planned_end) /\ IsNum(p.planned_start)
       /\ IsNum(p.spi) /\ RGt(p.spi, Zero)
    THEN LET planned_duration == Days(RSub(p.planned_end, p.planned_start))
             elapsed_days == IF RLt(today, p.planned_start) THEN Zero
                             ELSE Days(RSub(today, p.planned_start))
             remaining_duration ==
                 RMax(Zero, RDiv(RSub(planned_duration, elapsed_days), p.spi))
             forecast_completion_date ==
                 RAdd(p.planned_start, RAdd(elapsed_days, remaining_duration))
         IN  [forecast_completion_date |-> forecast_completion_date,
              schedule_variance_days |->
                  Days(RSub(forecast_completion_date, p.planned_end)),
              completion_confidence |->
                  IF RLe(p.spi, One) THEN R(Trunc(RMul(R(70), p.spi)))
                  ELSE R(70),
              remaining_duration |-> remaining_duration]
    ELSE [forecast_completion_date |-> None,
          schedule_variance_days |-> Zero,
          completion_confidence |-> Zero,
          remaining_duration |-> None]

\* lines 2014-2023: the actual cost, the project's own or an estimate
fpc_actual_cost(p) ==
    IF IsNum(p.actual_cost) THEN p.actual_cost
    ELSE IF IsNum(p.completion_pct)
         THEN LET pct_complete ==
                      RDiv(RMin(R(100), RMax(Zero, p.completion_pct)), R(100))
              IN  RDiv(RMul(p.budget, pct_complete), p.cpi)
         ELSE RDiv(RMul(p.budget, Half), p.cpi)

\* fpc_eac with the remaining budget multiplied by the index
fpc_eac_multiplied(p, actual_cost) ==
    RAdd(actual_cost, RMul(RSub(p.budget, actual_cost), p.cpi))

\* line 2026: Estimate at Completion
fpc_eac(p, actual_cost) ==
    RAdd(actual_cost, RDiv(RSub(p.budget, actual_cost), p.cpi))

\* lines 2010-2033: the cost part
fpc_cost(p) ==
    IF IsNum(p.budget) /\ IsNum(p.cpi) /\ RGt(p.cpi, Zero)
    THEN LET forecast_final_cost == fpc_eac(p, fpc_actual_cost(p))
         IN  [forecast_final_cost |-> forecast_final_cost,
              cost_variance |-> RSub(forecast_final_cost, p.budget)]
    ELSE [forecast_final_cost |-> None, cost_variance |-> Zero]

\* lines 2035-2074: risk factors, in the order of the checks
fpc_risk_factors(p, sched, cost, spi_thr, cpi_thr) ==
    LET f1 == IF IsNum(p.spi)
              THEN IF RLt(p.spi, RSub(spi_thr, Tenth)) THEN <<SpiSignificantMsg>>
                   ELSE IF RLt(p.spi, spi_thr) THEN <<SpiBelowMsg>>
                   ELSE << >>
              ELSE << >>
        f2 == IF IsNum(p.cpi)
              THEN IF RLt(p.cpi, RSub(cpi_thr, Tenth)) THEN <<CpiSignificantMsg>>
                   ELSE IF RLt(p.cpi, cpi_thr) THEN <<CpiBelowMsg>>
                   ELSE << >>
              ELSE << >>
        f3 == IF RGt(sched.schedule_variance_days, R(30))
              THEN <<SignificantDelayMsg>>
              ELSE IF RGt(sched.schedule_variance_days, R(10))
                   THEN <<ModerateDelayMsg>>
                   ELSE << >>
        budget == IF IsNum(p.budget) THEN p.budget ELSE Zero
        cost_overrun_pct == RMul(RDiv(cost.cost_variance, budget), R(100))
        f4 == IF RGt(cost.cost_variance, Zero) /\ RGt(budget, Zero)
              THEN IF RGt(cost_overrun_pct, R(20)) THEN <<SignificantOverrunMsg>>
                   ELSE IF RGt(cost_overrun_pct, R(10))
                        THEN <<ModerateOverrunMsg>>
                        ELSE << >>
              ELSE << >>
        f5 == IF IsNum(p.risk_count) /\ RGt(p.risk_count, R(5))
              THEN <<HighRiskCountMsg>>
              ELSE << >>
    IN  f1 \o f2 \o f3 \o f4 \o f5

forecast_project_completion(p, today, spi_thr, cpi_thr) ==
    LET sched == fpc_schedule(p, today)
        cost == fpc_cost(p)
    IN  [forecast_completion_date |-> sched.forecast_completion_date,
         completion_confidence |-> sched.completion_confidence,
         forecast_final_cost |-> cost.forecast_final_cost,
         schedule_variance_days |-> sched.schedule_variance_days,
         cost_variance |-> cost.cost_variance,
         risk_factors |-> fpc_risk_factors(p, sched, cost, spi_thr, cpi_thr),
         remaining_duration |-> sched.remaining_duration]

\* ------------------------------------------------------------------------
\* predict_project_completion (src/utils/predictive_analytics.py)
\* ------------------------------------------------------------------------
RECURSIVE SumField(_, _)
\* tasks_data[field].sum()
SumField(ts, f) ==
    IF ts = << >> THEN Zero ELSE RAdd(Head(ts)[f], SumField(Tail(ts), f))

RAbs(a) == IF IsNaN(a) THEN NaN ELSE <<Abs(a[1]), a[2]>>

\* lines 113-130: progress and the indices from the task sums
ppc_metrics(ts, planned_duration, elapsed_days) ==
    IF ts # << >>
    THEN LET total_planned_cost == SumField(ts, "planned_cost")
             total_earned_value == SumField(ts, "earned_value")
             total_actual_cost == SumField(ts, "actual_cost")
         IN  IF RGt(total_planned_cost, Zero)
             THEN [progress_pct |-> RDiv(total_earned_value, total_planned_cost),
                   spi |-> RDiv(total_earned_value, total_planned_cost),
                   cpi |-> IF RGt(total_actual_cost, Zero)
                           THEN RDiv(total_earned_value, total_actual_cost)
                           ELSE One]
             ELSE [progress_pct |-> Zero, spi |-> One, cpi |-> One]
    ELSE [progress_pct |-> IF RGt(planned_duration, Zero)
                           THEN RDiv(elapsed_days, planned_duration)
                           ELSE Zero,
          spi |-> One, cpi |-> One]

\* the function has no try block: a missing date or budget raises
Raised == [raised |-> TRUE]

predict_project_completion(p, ts, today) ==
    IF ~(IsNum(p.planned_start) /\ IsNum(p.planned_end)) \/ IsAbsent(p.budget)
    THEN Raised
    ELSE
    LET planned_duration == Days(RSub(p.planned_end, p.planned_start))
        elapsed_days == Days(RSub(today, p.planned_start))
        m == ppc_metrics(ts, planned_duration, elapsed_days)
        progress_pct == RMin(One, m.progress_pct)
        remaining_duration == RSub(planned_duration, elapsed_days)
        adjusted_remaining ==
            RMax(Zero, IF RGt(m.spi, Zero) THEN RDiv(remaining_duration, m.spi)
                       ELSE RMul(remaining_duration, R(2)))
        remaining_days == R(Trunc(adjusted_remaining))
        spent == RMul(p.budget, progress_pct)
        eac == IF RGt(m.cpi, Zero)
               THEN RAdd(spent, RDiv(RSub(p.budget, spent), m.cpi))
               ELSE RMul(p.budget, R(2))
        spi_confidence ==
            RMin(R(100), R(Trunc(RMul(R(100),
                 RSub(One, RMul(Half, RAbs(RSub(One, m.spi))))))))
        cpi_confidence ==
            RMin(R(100), R(Trunc(RMul(R(100),
                 RSub(One, RMul(Half, RAbs(RSub(One, m.cpi))))))))
    IN  [raised |-> FALSE,
         forecast_completion_date |->
             RAdd(p.planned_start, RAdd(elapsed_days, remaining_days)),
         schedule_variance_days |-> RSub(remaining_days, remaining_duration),
         forecast_cost |-> eac,
         cost_variance |-> RSub(eac, p.budget),
         schedule_confidence |-> spi_confidence,
         cost_confidence |-> cpi_confidence,
         overall_confidence |-> RDiv(RAdd(spi_confidence, cpi_confidence), R(2)),
         progress_percentage |-> RMul(progress_pct, R(100)),
         spi |-> m.spi,
         cpi |-> m.cpi,
         remaining_duration |-> adjusted_remaining]

\* ------------------------------------------------------------------------
\* forecast_project_completion (src/utils/advanced_analytics.py)
\* ------------------------------------------------------------------------
adv_forecast_project_completion(p, ts, today) ==
    IF ts = << >>
    THEN [raised |-> FALSE,
          forecast_completion_date |-> None, forecast_final_cost |-> None,
          schedule_variance_days |-> None, cost_variance |-> None,
          completion_confidence |-> None, remaining_duration |-> None]
    ELSE IF ~(IsNum(p.planned_start) /\ IsNum(p.planned_end)) \/ IsAbsent(p.budget)
    THEN Raised
    ELSE
    LET total_planned_value == SumField(ts, "planned_cost")
        total_earned_value == SumField(ts, "earned_value")
        total_actual_cost == SumField(ts, "actual_cost")
        spi == IF RGt(total_planned_value, Zero)
               THEN RDiv(total_earned_value, total_planned_value) ELSE One
        cpi == IF RGt(total_planned_value, Zero) /\ RGt(total_actual_cost, Zero)
               THEN RDiv(total_earned_value, total_actual_cost) ELSE One
        planned_duration == Days(RSub(p.planned_end, p.planned_start))
        elapsed_days == Days(RSub(today, p.planned_start))
        remaining_duration ==
            IF RGt(spi, Zero)
            THEN RDiv(RSub(planned_duration, elapsed_days), spi)
            ELSE RSub(planned_duration, elapsed_days)
        forecast_completion ==
            RAdd(p.planned_start, RAdd(elapsed_days, remaining_duration))
        forecast_cost ==
            IF RGt(cpi, Zero)
            THEN RAdd(total_actual_cost,
                      RDiv(RSub(p.budget, total_earned_value), cpi))
            ELSE RMul(p.budget, Rat(3, 2))
    IN  [raised |-> FALSE,
         forecast_completion_date |-> forecast_completion,
         forecast_final_cost |-> forecast_cost,
         schedule_variance_days |-> Days(RSub(forecast_completion, p.planned_end)),
         cost_variance |-> RSub(forecast_cost, p.budget),
         completion_confidence |->
             R(Trunc(RMul(RAdd(RMul(RMin(One, spi), Half),
                               RMul(RMin(One, cpi), Half)), R(100)))),
         remaining_duration |-> remaining_duration]

\* ------------------------------------------------------------------------
\* generate_ensemble_forecast (src/app.py)
\* ------------------------------------------------------------------------
EvmModel == "EVM"
LinearRegressionModel == "Linear Regression"
LowSpiMsg == "Low Schedule Performance Index"
LowCpiMsg == "Low Cost Performance Index"
DecliningSpiMsg == "Declining SPI Trend"
DecliningCpiMsg == "Declining CPI Trend"
ScheduleDelayMsg == "Significant schedule delay"
CostOverrunMsg == "Significant cost overrun"

\* lines 2325-2335: the results dictionary as initialised
gef_initial ==
    [completion_date |-> None, completion_date_best |-> None,
     completion_date_worst |-> None, final_cost |-> None,
     final_cost_best |-> None, final_cost_worst |-> None,
     confidence |-> None, risk_factors |-> << >>, forecast_models |-> << >>]

\* line 2384: the EVM estimate at completion
gef_eac(p, actual_cost) ==
    RAdd(actual_cost, RDiv(RSub(p.budget, RMul(p.budget, p.spi)), p.cpi))

\* lines 2357-2390: the EVM forecast from the current indices.
\* bound: planned_duration and elapsed_days were assigned;
\* exc: a KeyError left the function through the outer except.
gef_evm(p, today) ==
    IF ~IsAbsent(p.spi) /\ ~IsAbsent(p.cpi) /\ RGt(p.spi, Zero)
    THEN LET planned_duration == Days(RSub(p.planned_end, p.planned_start))
             elapsed_days == Days(RSub(today, p.planned_start))
             remaining_duration ==
                 RDiv(RSub(planned_duration, elapsed_days), p.spi)
             progress == IF IsNum(p.completion_pct)
                         THEN RDiv(p.completion_pct, R(100)) ELSE Half
             actual_cost == IF ~IsAbsent(p.actual_cost) THEN p.actual_cost
                            ELSE RDiv(RMul(p.budget, progress), p.cpi)
             priced == ~IsAbsent(p.budget) /\ RGt(p.cpi, Zero)
         IN  [bound |-> TRUE,
              exc |-> ~priced /\ IsAbsent(p.budget),
              planned_duration |-> planned_duration,
              elapsed_days |-> elapsed_days,
              remaining_duration |-> remaining_duration,
              evm_completion_date |->
                  RAdd(p.planned_start, RAdd(elapsed_days, remaining_duration)),
              evm_final_cost |->
                  IF priced THEN gef_eac(p, actual_cost)
                  ELSE IF IsAbsent(p.budget) THEN None
                  ELSE RMul(p.budget, Rat(11, 10)),
              models |-> <<EvmModel>>]
    ELSE [bound |-> FALSE,
          exc |-> FALSE,
          planned_duration |-> None,
          elapsed_days |-> None,
          remaining_duration |-> None,
          evm_completion_date |-> RAdd(p.planned_end, R(15)),
          evm_final_cost |-> IF ~IsAbsent(p.budget)
                             THEN RMul(p.budget, Rat(11, 10)) ELSE None,
          models |-> << >>]

\* history_df.sort_values('month'); months are unique per project
RECURSIVE SortByMonth(_)
SortByMonth(h) ==
    IF h = << >> THEN << >>
    ELSE LET i == CHOOSE k \in 1..Len(h) :
                      \A j \in 1..Len(h) : h[k].month <= h[j].month
             rest == [j \in 1..(Len(h) - 1) |-> IF j < i THEN h[j] ELSE h[j + 1]]
         IN  <<h[i]>> \o SortByMonth(rest)

RECURSIVE RSum(_)
RSum(xs) == IF xs = << >> THEN Zero ELSE RAdd(Head(xs), RSum(Tail(xs)))
RMean(xs) == RDiv(RSum(xs), R(Len(xs)))

\* LinearRegression().fit(month_num, y).predict(future_months), then np.mean
avg_future(y, forecast_periods) ==
    LET n == Len(y)
        xbar == RMean([i \in 1..n |-> R(i - 1)])
        ybar == RMean(y)
        sxx == RSum([i \in 1..n |-> RMul(RSub(R(i - 1), xbar), RSub(R(i - 1), xbar))])
        sxy == RSum([i \in 1..n |-> RMul(RSub(R(i - 1), xbar), RSub(y[i], ybar))])
        coef == RDiv(sxy, sxx)
        intercept == RSub(ybar, RMul(coef, xbar))
        forecasted == [k \in 1..forecast_periods |->
                          RAdd(intercept, RMul(coef, R(n + k - 1)))]
    IN  RMean(forecasted)

HasNaN(y) == \E i \in 1..Len(y) : IsNaN(y[i])

\* lines 2418-2442: the two projections, given the mean projected indices
gef_trend_values(p, evm, y_spi, y_cpi, avg_future_spi, avg_future_cpi) ==
    LET none == [ml_completion_date |-> None, ml_final_cost |-> None,
                 avg_future_spi |-> None, models |-> evm.models]
        usable == RGt(avg_future_spi, Zero)
        \* fit() rejects NaN; planned_duration is unbound without an EVM forecast
        spi_exc == HasNaN(y_spi) \/ (usable /\ ~evm.bound)
        models == IF usable THEN evm.models \o <<LinearRegressionModel>>
                  ELSE evm.models
        cost_model == ~IsAbsent(p.budget) /\ ~IsAbsent(p.actual_cost)
    IN  IF spi_exc THEN none
        ELSE IF cost_model /\ HasNaN(y_cpi)
        THEN [none EXCEPT !.models = models]
        ELSE [ml_completion_date |->
                  IF usable
                  THEN RAdd(p.planned_start,
                            RAdd(evm.elapsed_days,
                                 RDiv(RSub(evm.planned_duration, evm.elapsed_days),
                                      avg_future_spi)))
                  ELSE None,
              ml_final_cost |->
                  IF cost_model /\ RGt(avg_future_cpi, Zero)
                  THEN RAdd(p.actual_cost,
                            RDiv(RSub(p.budget, p.actual_cost), avg_future_cpi))
                  ELSE None,
              avg_future_spi |-> avg_future_spi,
              models |-> models]

\* lines 2399-2436: the two regressions over the history sorted by month
gef_trend_fit(p, evm, history_sorted, forecast_periods) ==
    gef_trend_values(p, evm,
        [i \in 1..Len(history_sorted) |-> history_sorted[i].spi],
        [i \in 1..Len(history_sorted) |-> history_sorted[i].cpi],
        avg_future([i \in 1..Len(history_sorted) |-> history_sorted[i].spi],
                   forecast_periods),
        avg_future([i \in 1..Len(history_sorted) |-> history_sorted[i].cpi],
                   forecast_periods))

\* lines 2392-2446: the trend forecast; any exception inside is caught at
\* line 2443 and clears both values, but not the model names already added
gef_trend(p, h, evm, forecast_periods) ==
    IF Len(h) < 3
    THEN [ml_completion_date |-> None, ml_final_cost |-> None,
          avg_future_spi |-> None, models |-> evm.models]
    ELSE gef_trend_fit(p, evm, SortByMonth(h), forecast_periods)

\* gef_risk_factors with the significant delay and overrun put first
gef_risk_factors_by_severity(p, h, completion_date, final_cost, spi_thr, cpi_thr) ==
    LET f1 == IF ~IsAbsent(p.spi) /\ RLt(p.spi, spi_thr)
              THEN <<LowSpiMsg>> ELSE << >>
        f2 == IF ~IsAbsent(p.cpi) /\ RLt(p.cpi, cpi_thr)
              THEN <<LowCpiMsg>> ELSE << >>
        n == Len(h)
        last_periods == SortByMonth(h)
        decreasing(f) == /\ RGe(last_periods[n - 2][f], last_periods[n - 1][f])
                         /\ RGe(last_periods[n - 1][f], last_periods[n][f])
        f3 == IF n >= 3 /\ decreasing("spi") THEN <<DecliningSpiMsg>> ELSE << >>
        f4 == IF n >= 3 /\ decreasing("cpi") THEN <<DecliningCpiMsg>> ELSE << >>
        delay_days == Days(RSub(completion_date, p.planned_end))
        f5 == IF RGt(delay_days, R(30)) THEN <<ScheduleDelayMsg>> ELSE << >>
        cost_overrun_pct ==
            RMul(RDiv(RSub(final_cost, p.budget), p.budget), R(100))
        f6 == IF ~IsAbsent(p.budget) /\ final_cost # None
                 /\ RGt(cost_overrun_pct, R(20))
              THEN <<CostOverrunMsg>> ELSE << >>
    IN  f5 \o f6 \o f1 \o f2 \o f3 \o f4

\* lines 2475-2507: risk factors, in the order of the checks
gef_risk_factors(p, h, completion_date, final_cost, spi_thr, cpi_thr) ==
    LET f1 == IF ~IsAbsent(p.spi) /\ RLt(p.spi, spi_thr)
              THEN <<LowSpiMsg>> ELSE << >>
        f2 == IF ~IsAbsent(p.cpi) /\ RLt(p.cpi, cpi_thr)
              THEN <<LowCpiMsg>> ELSE << >>
        n == Len(h)
        last_periods == SortByMonth(h)
        decreasing(f) == /\ RGe(last_periods[n - 2][f], last_periods[n - 1][f])
                         /\ RGe(last_periods[n - 1][f], last_periods[n][f])
        f3 == IF n >= 3 /\ decreasing("spi") THEN <<DecliningSpiMsg>> ELSE << >>
        f4 == IF n >= 3 /\ decreasing("cpi") THEN <<DecliningCpiMsg>> ELSE << >>
        delay_days == Days(RSub(completion_date, p.planned_end))
        f5 == IF RGt(delay_days, R(30)) THEN <<ScheduleDelayMsg>> ELSE << >>
        cost_overrun_pct ==
            RMul(RDiv(RSub(final_cost, p.budget), p.budget), R(100))
        f6 == IF ~IsAbsent(p.budget) /\ final_cost # None
                 /\ RGt(cost_overrun_pct, R(20))
              THEN <<CostOverrunMsg>> ELSE << >>
    IN  f1 \o f2 \o f3 \o f4 \o f5 \o f6

TrendWeight == Rat(3, 4)
EvmWeight == Rat(1, 4)
TrendConfidence == Rat(4, 5)
EvmConfidence == Rat(3, 5)

\* line 2451: ml_completion_date * 0.75 + evm_completion_date * 0.25.
\* Both operands are dates (Timestamp / datetime), which Python cannot
\* multiply by a float: the expression raises TypeError.
gef_blend_dates(ml_completion_date, evm_completion_date) ==
    [raised |-> TRUE, value |-> None]

\* lines 2448-2460: the ensemble of the two forecasts
gef_combine(evm, ml) ==
    LET blended == gef_blend_dates(ml.ml_completion_date, evm.evm_completion_date)
    IN
    IF ml.ml_completion_date # None
    THEN [exc |-> blended.raised,
          completion_date |-> blended.value,
          confidence |-> TrendConfidence,
          final_cost |->
              IF ml.ml_final_cost # None
              THEN RAdd(RMul(ml.ml_final_cost, TrendWeight),
                        RMul(evm.evm_final_cost, EvmWeight))
              ELSE evm.evm_final_cost]
    ELSE [exc |-> ml.ml_final_cost # None /\ evm.evm_final_cost = None,
          completion_date |-> evm.evm_completion_date,
          confidence |-> EvmConfidence,
          final_cost |->
              IF ml.ml_final_cost # None /\ evm.evm_final_cost # None
              THEN RAdd(RMul(ml.ml_final_cost, TrendWeight),
                        RMul(evm.evm_final_cost, EvmWeight))
              ELSE evm.evm_final_cost]

\* what the body computed on the way; not part of the returned dictionary
gef_locals(evm, ml) ==
    [evm_completion_date |-> evm.evm_completion_date,
     evm_final_cost |-> evm.evm_final_cost,
     remaining_duration |-> evm.remaining_duration,
     ml_completion_date |-> ml.ml_completion_date,
     ml_final_cost |-> ml.ml_final_cost,
     avg_future_spi |-> ml.avg_future_spi]

NoLocals ==
    [evm_completion_date |-> None, evm_final_cost |-> None,
     remaining_duration |-> None, ml_completion_date |-> None,
     ml_final_cost |-> None, avg_future_spi |-> None]

\* gef_results with the whole buffer taken off for the best date
gef_results_symmetric(p, h, evm, ml, c, spi_thr, cpi_thr) ==
    LET completion_buffer ==
            RMul(Days(RSub(p.planned_end, p.planned_start)), Rat(15, 100))
        with_models == [gef_initial EXCEPT !.forecast_models = ml.models]
        with_dates ==
            [with_models EXCEPT
                !.completion_date = c.completion_date,
                !.completion_date_best =
                    RSub(c.completion_date, completion_buffer),
                !.completion_date_worst =
                    RAdd(c.completion_date, completion_buffer)]
    IN  IF c.exc THEN with_models
        \* line 2471: None * 0.95 raises after the dates were stored
        ELSE IF c.final_cost = None THEN with_dates
        ELSE [with_dates EXCEPT
                !.final_cost = c.final_cost,
                !.final_cost_best = RMul(c.final_cost, Rat(95, 100)),
                !.final_cost_worst = RMul(c.final_cost, Rat(12, 10)),
                !.confidence = c.confidence,
                !.risk_factors =
                    gef_risk_factors(p, h, c.completion_date, c.final_cost,
                                     spi_thr, cpi_thr)]

\* lines 2462-2507: the results dictionary, filled in up to the first
\* exception (caught at line 2509)
gef_results(p, h, evm, ml, c, spi_thr, cpi_thr) ==
    LET completion_buffer ==
            RMul(Days(RSub(p.planned_end, p.planned_start)), Rat(15, 100))
        with_models == [gef_initial EXCEPT !.forecast_models = ml.models]
        with_dates ==
            [with_models EXCEPT
                !.completion_date = c.completion_date,
                !.completion_date_best =
                    RSub(c.completion_date, RDiv(completion_buffer, R(2))),
                !.completion_date_worst =
                    RAdd(c.completion_date, completion_buffer)]
    IN  IF c.exc THEN with_models
        \* line 2471: None * 0.95 raises after the dates were stored
        ELSE IF c.final_cost = None THEN with_dates
        ELSE [with_dates EXCEPT
                !.final_cost = c.final_cost,
                !.final_cost_best = RMul(c.final_cost, Rat(95, 100)),
                !.final_cost_worst = RMul(c.final_cost, Rat(12, 10)),
                !.confidence = c.confidence,
                !.risk_factors =
                    gef_risk_factors(p, h, c.completion_date, c.final_cost,
                                     spi_thr, cpi_thr)]

\* lines 2392-2513, given the EVM forecast and the trend forecast
gef_ensemble(p, h, evm, ml, spi_thr, cpi_thr) ==
    [results |-> gef_results(p, h, evm, ml, gef_combine(evm, ml),
                             spi_thr, cpi_thr),
     locals |-> gef_locals(evm, ml)]

\* lines 2357-2513, given the EVM forecast
gef_after_evm(p, h, evm, spi_thr, cpi_thr, forecast_periods) ==
    IF evm.exc
    THEN [results |-> [gef_initial EXCEPT !.forecast_models = evm.models],
          locals |-> NoLocals]
    ELSE gef_ensemble(p, h, evm, gef_trend(p, h, evm, forecast_periods),
                      spi_thr, cpi_thr)

\* generate_ensemble_forecast without the test of planned_end: the EVM model
\* is listed before the date arithmetic raises
generate_ensemble_forecast_end_unchecked(p, h, today, spi_thr, cpi_thr, forecast_periods) ==
    IF ~IsNum(p.planned_start)
    THEN [results |-> gef_initial, locals |-> NoLocals]
    ELSE IF ~IsNum(p.planned_end)
    THEN [results |-> [gef_initial EXCEPT !.forecast_models = <<EvmModel>>],
          locals |-> NoLocals]
    ELSE gef_after_evm(p, h, gef_evm(p, today), spi_thr, cpi_thr,
                       forecast_periods)

generate_ensemble_forecast(p, h, today, spi_thr, cpi_thr, forecast_periods) ==
    \* lines 2339-2355: no forecast without both dates
    IF ~(IsNum(p.planned_start) /\ IsNum(p.planned_end))
    THEN [results |-> gef_initial, locals |-> NoLocals]
    ELSE gef_after_evm(p, h, gef_evm(p, today), spi_thr, cpi_thr,
                       forecast_periods)

\* ------------------------------------------------------------------------
\* prepare_forecast_data (src/utils/data_processor.py)
\* ------------------------------------------------------------------------
\* float('inf')
inf == <<1, 0, 0>>

\* np.linspace(1, 3, n)
pfd_weights(n) ==
    [i \in 1..n |-> IF n = 1 THEN One ELSE RAdd(One, Rat(2 * (i - 1), n - 1))]

RECURSIVE pfd_dot(_, _)
pfd_dot(xs, ws) ==
    IF xs = << >> THEN Zero
    ELSE RAdd(RMul(Head(xs), Head(ws)), pfd_dot(Tail(xs), Tail(ws)))

\* lines 237-240: np.average with the weights of the later months higher
pfd_average(xs) ==
    RDiv(pfd_dot(xs, pfd_weights(Len(xs))), RSum(pfd_weights(Len(xs))))

\* lines 254-263: three values regressing to 1.0
pfd_forecast_values(avg) ==
    [i \in 1..3 |-> RAdd(RMul(avg, RSub(One, Rat(2 * i, 10))), Rat(2 * i, 10))]

\* line 271
pfd_forecasted_duration(total_duration, avg_spi) ==
    IF RGt(avg_spi, Zero) THEN RDiv(total_duration, avg_spi) ELSE inf

\* line 280
pfd_forecast_cost(budget, avg_cpi) ==
    IF RGt(avg_cpi, Zero) THEN RDiv(budget, avg_cpi) ELSE inf

\* lines 268-280; int() of an infinite float raises OverflowError
pfd_forecast(project_df, avg_spi, avg_cpi, total_duration, forecasted_duration) ==
    IF forecasted_duration = inf THEN Raised
    ELSE [raised |-> FALSE, avg_spi |-> avg_spi, avg_cpi |-> avg_cpi,
          forecast_spi |-> pfd_forecast_values(avg_spi),
          forecast_cpi |-> pfd_forecast_values(avg_cpi),
          schedule_variance_days |->
              R(Trunc(RSub(forecasted_duration, total_duration))),
          forecast_end_date |->
              RAdd(project_df.start_date, R(Trunc(forecasted_duration))),
          forecast_cost |-> pfd_forecast_cost(project_df.budget, avg_cpi)]

pfd_with_history(project_df, sorted, total_duration) ==
    pfd_forecast(project_df,
                 pfd_average([i \in 1..Len(sorted) |-> sorted[i].spi]),
                 pfd_average([i \in 1..Len(sorted) |-> sorted[i].cpi]),
                 total_duration,
                 pfd_forecasted_duration(
                     total_duration,
                     pfd_average([i \in 1..Len(sorted) |-> sorted[i].spi])))

\* lines 195-297; the series returned for the charts (the history itself,
\* the dates of the three forecast months) are left out
prepare_forecast_data(project_df, project_history) ==
    IF project_history # << >>
    THEN pfd_with_history(
             project_df, SortByMonth(project_history),
             Days(RSub(project_df.planned_end_date, project_df.start_date)))
    ELSE [raised |-> FALSE, avg_spi |-> One, avg_cpi |-> One,
          forecast_spi |-> << >>, forecast_cpi |-> << >>,
          schedule_variance_days |-> Zero,
          forecast_end_date |-> project_df.planned_end_date,
          forecast_cost |-> project_df.budget]

\* ------------------------------------------------------------------------
\* Inputs of the forecasters
\* ------------------------------------------------------------------------
MaxTasks == 2
MaxHist == 3

DefaultSpiThreshold == Rat(90, 100)
DefaultCpiThreshold == Rat(90, 100)
DefaultForecastHorizon == 3

StartValues == {NaN, R(10)}
EndValues == {NaN, R(10), R(20)}
NowValues == {R(5), R(10), Rat(21, 2), R(30)}
SpiValues == {NaN, Zero, Half, One, Rat(5, 4)}
CpiValues == {NaN, Zero, Rat(4, 5), One}
BudgetValues == {Absent, NaN, R(100)}
ActualCostValues == {Absent, R(40), R(120)}
CompletionPctValues == {NaN, R(40), R(150)}
RiskCountValues == {Absent, R(6)}

\* a project row of projects_df
ProjectRows ==
    [planned_start : StartValues, planned_end : EndValues,
     spi : SpiValues, cpi : CpiValues, budget : BudgetValues,
     actual_cost : ActualCostValues, completion_pct : CompletionPctValues,
     risk_count : RiskCountValues]

\* planned_end is never before planned_start
WellDated(p) ==
    IsNum(p.planned_start) /\ IsNum(p.planned_end)
        => RLe(p.planned_start, p.planned_end)

\* rows whose indices are taken from the tasks, not from the row
TaskProjectRows ==
    {p \in ProjectRows : p.spi = One /\ p.cpi = One /\ p.actual_cost = Absent
                         /\ p.completion_pct = NaN /\ p.risk_count = Absent}

TaskRows ==
    {[planned_cost |-> R(10), earned_value |-> R(10), actual_cost |-> R(10)],
     [planned_cost |-> R(10), earned_value |-> R(5), actual_cost |-> R(10)],
     [planned_cost |-> R(10), earned_value |-> R(5), actual_cost |-> Zero],
     [planned_cost |-> Zero, earned_value |-> Zero, actual_cost |-> Zero],
     [planned_cost |-> Zero, earned_value |-> R(5), actual_cost |-> R(10)]}

SeqsUpTo(S, n) == UNION {[1..k -> S] : k \in 0..n}

NoResult == [raised |-> FALSE]

\* no tables loaded
NoTables == projects_df = << >> /\ history_df = << >>
\* initialize_session_state: nothing loaded, no forecast cached
NoSession ==
    /\ data_loaded = FALSE /\ tasks_df = << >>
    /\ project_forecasts = << >> /\ forecast_generated_at = None
\* no matrix, nothing detected yet
NoDetector ==
    /\ metrics_df = << >> /\ contamination = Tenth
    /\ np_random = 0 /\ first_call = {}

InitEVM ==
    /\ \/ /\ project \in {p \in ProjectRows : WellDated(p)}
          /\ tasks = << >>
       \/ /\ project \in {p \in TaskProjectRows : WellDated(p)}
          /\ tasks \in SeqsUpTo(TaskRows, MaxTasks) \ {<< >>}
    /\ now \in NowValues
    /\ history = << >>
    /\ spi_threshold = DefaultSpiThreshold
    /\ cpi_threshold = DefaultCpiThreshold
    /\ forecast_horizon = DefaultForecastHorizon
    /\ NoDetector
    /\ NoSession
    /\ op = "idle"
    /\ result = NoResult
    /\ NoTables

CallForecastProjectCompletion ==
    /\ op = "idle"
    /\ op' = "forecast_project_completion"
    /\ result' = forecast_project_completion(project, now, spi_threshold,
                                             cpi_threshold)
    /\ UNCHANGED <<session, finputs, thresholds, tables, detector>>

CallPredictProjectCompletion ==
    /\ op = "idle"
    /\ op' = "predict_project_completion"
    /\ result' = predict_project_completion(project, tasks, now)
    /\ UNCHANGED <<session, finputs, thresholds, tables, detector>>

CallAdvForecastProjectCompletion ==
    /\ op = "idle"
    /\ op' = "adv_forecast_project_completion"
    /\ result' = adv_forecast_project_completion(project, tasks, now)
    /\ UNCHANGED <<session, finputs, thresholds, tables, detector>>

NextEVM ==
    \/ CallForecastProjectCompletion
    \/ CallPredictProjectCompletion
    \/ CallAdvForecastProjectCompletion

SpecEVM == InitEVM /\ [][NextEVM]_vars

\* ------------------------------------------------------------------------
\* Properties of the EVM forecasters (SpecEVM)
\* ------------------------------------------------------------------------
\* the completed fraction of the claim: completion_pct as a fraction of 1,
\* one half when unknown
Progress(p) ==
    IF IsNum(p.completion_pct)
    THEN IF RGt(p.completion_pct, R(100)) THEN One
         ELSE IF RLt(p.completion_pct, Zero) THEN Zero
         ELSE RDiv(p.completion_pct, R(100))
    ELSE Half

\* C1: for a project with a budget and cpi > 0, forecast_project_completion
\* returns forecast_final_cost = actual_cost + (budget - actual_cost)/cpi,
\* actual_cost being the row's own value when known and budget*progress/cpi
\* otherwise; with cpi = 1 the forecast final cost is the budget.
C1_EstimateAtCompletion ==
    (/\ op = "forecast_project_completion"
     /\ IsNum(project.budget)
     /\ IsNum(project.cpi) /\ RGt(project.cpi, Zero))
    => LET actual_cost ==
               IF IsNum(project.actual_cost) THEN project.actual_cost
               ELSE RDiv(RMul(project.budget, Progress(project)), project.cpi)
       IN  /\ IsNum(result.forecast_final_cost)
           /\ RMul(RSub(result.forecast_final_cost, actual_cost), project.cpi)
                  = RSub(project.budget, actual_cost)
           /\ project.cpi = One => result.forecast_final_cost = project.budget

\* budget 100, 40% complete, cpi 0.8: spent 50, forecast 50 + 50/0.8 = 112.5
C1_Witness ==
    /\ op = "forecast_project_completion"
    /\ project.budget = R(100)
    /\ project.cpi = Rat(4, 5)
    /\ project.actual_cost = Absent
    /\ project.completion_pct = R(40)
    /\ result.forecast_final_cost = Rat(225, 2)

\* C9: with spi = 1 and now = planned_start, forecast_project_completion and
\* predict_project_completion give schedule_variance_days = 0 and a forecast
\* completion date equal to planned_end.
C9_OnPlanNoDrift ==
    /\ (/\ op = "forecast_project_completion"
        /\ IsNum(project.planned_start) /\ IsNum(project.planned_end)
        /\ project.spi = One
        /\ now = project.planned_start)
       => /\ result.schedule_variance_days = Zero
          /\ result.forecast_completion_date = project.planned_end
    /\ (/\ op = "predict_project_completion"
        /\ ~result.raised
        /\ result.spi = One
        /\ now = project.planned_start)
       => /\ result.schedule_variance_days = Zero
          /\ result.forecast_completion_date = project.planned_end

C9_Witness ==
    /\ op = "forecast_project_completion"
    /\ project.spi = One
    /\ now = project.planned_start
    /\ project.planned_end = R(20)
    /\ result.forecast_completion_date = R(20)
    /\ result.schedule_variance_days = Zero

\* ------------------------------------------------------------------------
\* Inputs of generate_ensemble_forecast
\* ------------------------------------------------------------------------
EnsembleProjectRows ==
    [planned_start : StartValues, planned_end : EndValues,
     spi : SpiValues \cup {Absent}, cpi : CpiValues \cup {Absent},
     budget : BudgetValues, actual_cost : ActualCostValues \cup {NaN},
     completion_pct : {NaN, R(40)}, risk_count : {Absent}]

\* the rows used when the history varies
NominalProjectRows ==
    [planned_start : {R(10)}, planned_end : {R(20)},
     spi : {NaN, Half, One}, cpi : {One},
     budget : {R(100)}, actual_cost : {Absent, R(40)},
     completion_pct : {NaN}, risk_count : {Absent}]

HistorySpiValues == {NaN, Zero, Half, One}
HistoryCpiValues == {Rat(4, 5), One}

\* n history rows of one project, oldest first or newest first
HistoryTables(n) ==
    LET cells == [spi : HistorySpiValues, cpi : HistoryCpiValues]
        table(c, newest_first) ==
            [i \in 1..n |->
                [month |-> IF newest_first THEN n + 1 - i ELSE i,
                 spi |-> c[i].spi, cpi |-> c[i].cpi]]
    IN  {table(c, d) : c \in [1..n -> cells], d \in BOOLEAN}

HistoryRow(m, s, c) == [month |-> m, spi |-> s, cpi |-> c]

\* no history, too short, a rising trend, a trend that falls below zero
SampleHistories ==
    {<< >>,
     <<HistoryRow(1, One, One), HistoryRow(2, Half, One)>>,
     <<HistoryRow(1, Half, One), HistoryRow(2, Half, Rat(4, 5)),
       HistoryRow(3, One, Rat(4, 5))>>,
     <<HistoryRow(3, Zero, One), HistoryRow(2, Half, One),
       HistoryRow(1, One, One)>>}

InitEnsemble ==
    /\ \/ /\ project \in {p \in EnsembleProjectRows : WellDated(p)}
          /\ history \in SampleHistories
          /\ now \in NowValues
          /\ forecast_horizon = DefaultForecastHorizon
       \/ /\ project \in NominalProjectRows
          /\ history \in UNION {HistoryTables(n) : n \in 0..MaxHist}
          /\ now \in {R(5), R(30)}
          /\ forecast_horizon \in {1, DefaultForecastHorizon}
    /\ tasks = << >>
    /\ spi_threshold = DefaultSpiThreshold
    /\ cpi_threshold = DefaultCpiThreshold
    /\ NoDetector
    /\ NoSession
    /\ op = "idle"
    /\ result = NoResult
    /\ NoTables

CallGenerateEnsembleForecast ==
    /\ op = "idle"
    /\ op' = "generate_ensemble_forecast"
    /\ result' = generate_ensemble_forecast(project, history, now, spi_threshold,
                                            cpi_threshold, forecast_horizon)
    /\ UNCHANGED <<session, finputs, thresholds, tables, detector>>

\* app.py line 3123: the project's row of the generated table, whose date
\* columns are start_date and planned_end_date and are always filled.  The
\* function reads neither the clock nor the forecast horizon, so it is
\* called at one value of each.
CallPrepareForecastData ==
    /\ op = "idle"
    /\ now = R(5) /\ forecast_horizon = DefaultForecastHorizon
    /\ IsNum(project.planned_start) /\ IsNum(project.planned_end)
    /\ IsNum(project.budget)
    /\ op' = "prepare_forecast_data"
    /\ result' = prepare_forecast_data(
                      [start_date |-> project.planned_start,
                       planned_end_date |-> project.planned_end,
                       budget |-> project.budget],
                      history)
    /\ UNCHANGED <<session, finputs, thresholds, tables, detector>>

\* app.py line 2276: the forecast of generate_project_forecasts, here for
\* the projects without history rows
CallForecastWithoutHistory ==
    /\ history = << >>
    /\ CallForecastProjectCompletion

NextEnsemble ==
    \/ CallGenerateEnsembleForecast
    \/ CallPrepareForecastData
    \/ CallForecastWithoutHistory

SpecEnsemble == InitEnsemble /\ [][NextEnsemble]_vars

\* ------------------------------------------------------------------------
\* Properties of generate_ensemble_forecast (SpecEnsemble)
\* ------------------------------------------------------------------------
\* a row with both dates, positive indices and a budget
CompleteProject(p) ==
    /\ IsNum(p.planned_start) /\ IsNum(p.planned_end)
    /\ IsNum(p.spi) /\ RGt(p.spi, Zero)
    /\ IsNum(p.cpi) /\ RGt(p.cpi, Zero)
    /\ IsNum(p.budget)

\* at least 3 history points and a mean projected SPI > 0
TrendUsable(h, forecast_periods) ==
    /\ Len(h) >= 3
    /\ LET sorted == SortByMonth(h)
           y == [i \in 1..Len(h) |-> sorted[i].spi]
       IN  ~HasNaN(y) /\ RGt(avg_future(y, forecast_periods), Zero)

\* C2: for a project with planned dates, spi > 0, cpi > 0 and a budget, the
\* EVM cost of generate_ensemble_forecast is spent + (budget - spent)/cpi
\* with spent = actual_cost; with cpi = 1 and no usable trend model the
\* returned final_cost is the budget, whatever spi > 0 is.
C2_EnsembleEstimateAtCompletion ==
    (/\ op = "generate_ensemble_forecast"
     /\ CompleteProject(project)
     /\ IsNum(project.actual_cost))
    => /\ result.locals.evm_final_cost =
              RAdd(project.actual_cost,
                   RDiv(RSub(project.budget, project.actual_cost), project.cpi))
       /\ (project.cpi = One /\ Len(history) < 3)
              => result.results.final_cost = project.budget

\* C3: every result of generate_ensemble_forecast has confidence 60 or 80
\* (percent): 80 when a usable trend projection was blended in, 60 otherwise.
\* Stated for rows with both dates, positive indices and a budget.
C3_ConfidenceLevels ==
    (/\ op = "generate_ensemble_forecast"
     /\ CompleteProject(project))
    => /\ result.results.confidence # None
       /\ RMul(result.results.confidence, R(100)) =
              IF TrendUsable(history, forecast_horizon) THEN R(80) ELSE R(60)

\* C4: when a usable trend projection exists the returned completion_date is
\* 0.75 * trend_date + 0.25 * evm_date; when none exists it is evm_date.
C4_BlendedCompletionDate ==
    (/\ op = "generate_ensemble_forecast"
     /\ CompleteProject(project))
    => IF TrendUsable(history, forecast_horizon)
       THEN /\ result.results.completion_date # None
            /\ result.results.completion_date =
                   RAdd(RMul(TrendWeight, result.locals.ml_completion_date),
                        RMul(EvmWeight, result.locals.evm_completion_date))
       ELSE result.results.completion_date = result.locals.evm_completion_date

\* C10: with planned_start = planned_end no forecaster raises a division
\* error and the remaining duration it computes is 0, for any spi and now.
C10_ZeroDurationRemaining ==
    (/\ op = "generate_ensemble_forecast"
     /\ IsNum(project.planned_start)
     /\ project.planned_end = project.planned_start
     /\ result.locals.remaining_duration # None)
    => result.locals.remaining_duration = Zero

\* ------------------------------------------------------------------------
\* get_projects_needing_attention (src/utils/data_processor.py)
\* ------------------------------------------------------------------------
OnTrack == "On Track"
AtRisk == "At Risk"
Delayed == "Delayed"

\* lines 161-163: the row of project pid with the latest month
att_latest(h, pid) ==
    h[CHOOSE i \in 1..Len(h) :
          /\ h[i].project_id = pid
          /\ \A j \in 1..Len(h) :
                 h[j].project_id = pid => h[j].month <= h[i].month]

\* lines 165-171: left merge of the projects with their latest spi and cpi
att_merge(projects, h) ==
    [i \in 1..Len(projects) |->
        IF \E j \in 1..Len(h) : h[j].project_id = projects[i].project_id
        THEN [project_id |-> projects[i].project_id,
              status |-> projects[i].status,
              spi |-> att_latest(h, projects[i].project_id).spi,
              cpi |-> att_latest(h, projects[i].project_id).cpi]
        ELSE [project_id |-> projects[i].project_id,
              status |-> projects[i].status,
              spi |-> NaN, cpi |-> NaN]]

\* lines 174-175: fillna(1.0)
att_fillna(rows) ==
    [i \in 1..Len(rows) |->
        [rows[i] EXCEPT !.spi = IF IsNaN(@) THEN One ELSE @,
                        !.cpi = IF IsNaN(@) THEN One ELSE @]]

\* att_qualifies without the Delayed status
att_qualifies_at_risk_only(row, spi_thr, cpi_thr) ==
    \/ RLt(row.spi, spi_thr)
    \/ RLt(row.cpi, cpi_thr)
    \/ row.status \in {AtRisk}

\* lines 178-182: the filter
att_qualifies(row, spi_thr, cpi_thr) ==
    \/ RLt(row.spi, spi_thr)
    \/ RLt(row.cpi, cpi_thr)
    \/ row.status \in {AtRisk, Delayed}

RECURSIVE att_filter(_, _, _)
att_filter(rows, spi_thr, cpi_thr) ==
    IF rows = << >> THEN << >>
    ELSE IF att_qualifies(Head(rows), spi_thr, cpi_thr)
         THEN <<Head(rows)>> \o att_filter(Tail(rows), spi_thr, cpi_thr)
         ELSE att_filter(Tail(rows), spi_thr, cpi_thr)

\* lines 185-188: the combined risk score
att_risk_score(rows) ==
    [i \in 1..Len(rows) |->
        [project_id |-> rows[i].project_id, status |-> rows[i].status,
         spi |-> rows[i].spi, cpi |-> rows[i].cpi,
         risk_score |-> RAdd(RMul(RSub(One, rows[i].spi), Half),
                             RMul(RSub(One, rows[i].cpi), Half))]]

Orderings(n) == {f \in [1..n -> 1..n] : \A i, j \in 1..n : i # j => f[i] # f[j]}

\* sort_values with the order of the scores inverted
att_sort_values_ascending(rows) ==
    {[i \in 1..Len(rows) |-> rows[f[i]]] : f \in
        {g \in Orderings(Len(rows)) :
            \A i \in 1..(Len(rows) - 1) :
                RLe(rows[g[i]].risk_score, rows[g[i + 1]].risk_score)}}

\* line 191: sort_values('risk_score', ascending=False).  The default sort
\* kind is not stable, so rows of equal score may come out in any order.
att_sort_values(rows) ==
    {[i \in 1..Len(rows) |-> rows[f[i]]] : f \in
        {g \in Orderings(Len(rows)) :
            \A i \in 1..(Len(rows) - 1) :
                RGe(rows[g[i]].risk_score, rows[g[i + 1]].risk_score)}}

\* the tables the function can return
get_projects_needing_attention(projects, h, spi_thr, cpi_thr) ==
    att_sort_values(
        att_risk_score(
            att_filter(att_fillna(att_merge(projects, h)), spi_thr, cpi_thr)))

\* ------------------------------------------------------------------------
\* Inputs of get_projects_needing_attention
\* ------------------------------------------------------------------------
NumProjects == 3

AttentionSpiValues == {Rat(70, 100), Rat(90, 100), Rat(95, 100), Rat(105, 100)}
AttentionCpiValues == {Rat(80, 100), Rat(90, 100), One}

MonthRow(m, s, c) == [month |-> m, spi |-> s, cpi |-> c]

\* one project of the portfolio: its status and its history rows
\* any indices, at most one month of history, on track
MetricCells ==
    [status : {OnTrack},
     rows : {<< >>} \cup {<<MonthRow(1, s, c)>> :
                            s \in AttentionSpiValues, c \in AttentionCpiValues}]

\* any status, with no history, a healthy month or a poor month
StatusCells ==
    [status : {OnTrack, AtRisk, Delayed},
     rows : {<< >>, <<MonthRow(1, Rat(105, 100), One)>>,
             <<MonthRow(1, Rat(70, 100), One)>>}]

\* one or two months of history, stored oldest first or newest first
TwoMonthCells ==
    LET values == {<<Rat(70, 100), One>>, <<Rat(105, 100), One>>}
    IN  [status : {OnTrack},
         rows : {<<MonthRow(1, v[1], v[2])>> : v \in values}
                \cup {<<MonthRow(1, v[1], v[2]), MonthRow(2, w[1], w[2])>> :
                         v \in values, w \in values}
                \cup {<<MonthRow(2, w[1], w[2]), MonthRow(1, v[1], v[2])>> :
                         v \in values, w \in values}]

RECURSIVE HistoryOf(_, _)
\* the history table of cells k..n, project by project
HistoryOf(cells, k) ==
    IF k > Len(cells) THEN << >>
    ELSE [i \in 1..Len(cells[k].rows) |->
             [project_id |-> k, month |-> cells[k].rows[i].month,
              spi |-> cells[k].rows[i].spi, cpi |-> cells[k].rows[i].cpi]]
         \o HistoryOf(cells, k + 1)

ProjectsOf(cells) ==
    [i \in 1..Len(cells) |-> [project_id |-> i, status |-> cells[i].status]]

Portfolios(Cells) == UNION {[1..n -> Cells] : n \in 1..NumProjects}

\* forecaster inputs while no forecaster is called
NoForecastInputs ==
    /\ project = << >> /\ tasks = << >> /\ history = << >>
    /\ now = Zero /\ forecast_horizon = DefaultForecastHorizon

InitAttention ==
    /\ \/ /\ \E cells \in Portfolios(MetricCells) :
                /\ projects_df = ProjectsOf(cells)
                /\ history_df = HistoryOf(cells, 1)
          /\ \E t \in {<<DefaultSpiThreshold, DefaultCpiThreshold>>,
                       <<Rat(95, 100), Rat(80, 100)>>} :
                /\ spi_threshold = t[1]
                /\ cpi_threshold = t[2]
       \/ /\ \E cells \in Portfolios(StatusCells) \cup Portfolios(TwoMonthCells) :
                /\ projects_df = ProjectsOf(cells)
                /\ history_df = HistoryOf(cells, 1)
          /\ spi_threshold = DefaultSpiThreshold
          /\ cpi_threshold = DefaultCpiThreshold
    \* the history table holds at least one row
    /\ history_df # << >>
    /\ NoForecastInputs
    /\ NoDetector
    /\ NoSession
    /\ op = "idle"
    /\ result = NoResult

CallGetProjectsNeedingAttention ==
    /\ op = "idle"
    /\ op' = "get_projects_needing_attention"
    /\ result' \in get_projects_needing_attention(projects_df, history_df,
                                                  spi_threshold, cpi_threshold)
    /\ UNCHANGED <<session, finputs, thresholds, tables, detector>>

NextAttention == CallGetProjectsNeedingAttention

SpecAttention == InitAttention /\ [][NextAttention]_vars

\* ------------------------------------------------------------------------
\* Properties of get_projects_needing_attention (SpecAttention)
\* ------------------------------------------------------------------------
HistoryRowsOf(pid) ==
    {history_df[j] : j \in {k \in 1..Len(history_df) :
                               history_df[k].project_id = pid}}

\* the latest index of a project, 1.0 when it has no history record
LatestIndex(pid, f) ==
    IF HistoryRowsOf(pid) = {} THEN One
    ELSE LET r == CHOOSE r \in HistoryRowsOf(pid) :
                      \A q \in HistoryRowsOf(pid) : q.month <= r.month
         IN  IF IsNaN(r[f]) THEN One ELSE r[f]

\* risk_score = 0.5*(1-spi) + 0.5*(1-cpi)
RiskScoreOf(pid) ==
    RAdd(RMul(Half, RSub(One, LatestIndex(pid, "spi"))),
         RMul(Half, RSub(One, LatestIndex(pid, "cpi"))))

\* SPI = [0.70, 0.95, 1.05], CPI = [1.00, 0.80, 1.00], thresholds (0.9, 0.9)
ExampleInput ==
    /\ Len(projects_df) = 3
    /\ \A i \in 1..3 : projects_df[i].project_id = i
                       /\ projects_df[i].status = OnTrack
    /\ spi_threshold = Rat(9, 10) /\ cpi_threshold = Rat(9, 10)
    /\ LatestIndex(1, "spi") = Rat(70, 100) /\ LatestIndex(1, "cpi") = One
    /\ LatestIndex(2, "spi") = Rat(95, 100) /\ LatestIndex(2, "cpi") = Rat(80, 100)
    /\ LatestIndex(3, "spi") = Rat(105, 100) /\ LatestIndex(3, "cpi") = One

AttentionSorted ==
    /\ \A i \in 1..Len(result) :
           result[i].risk_score = RiskScoreOf(result[i].project_id)
    /\ \A i \in 1..(Len(result) - 1) :
           RGe(result[i].risk_score, result[i + 1].risk_score)

\* C5 as stated: the rows are ordered by non-increasing risk_score =
\* 0.5*(1-spi) + 0.5*(1-cpi), and the example yields [project1, project2]
\* with scores 0.15 and 0.10.
C5_AsStated ==
    op = "get_projects_needing_attention"
    => /\ AttentionSorted
       /\ ExampleInput
              => /\ [i \in 1..Len(result) |-> result[i].project_id] = <<1, 2>>
                 /\ [i \in 1..Len(result) |-> result[i].risk_score]
                        = <<Rat(15, 100), Rat(10, 100)>>

\* C5, amended: the rows are ordered by non-increasing risk_score =
\* 0.5*(1-spi) + 0.5*(1-cpi), and the example yields [project1, project2]
\* with scores 0.15 and 0.125.
C5_SortedByRiskScore ==
    op = "get_projects_needing_attention"
    => /\ AttentionSorted
       /\ ExampleInput
              => /\ [i \in 1..Len(result) |-> result[i].project_id] = <<1, 2>>
                 /\ [i \in 1..Len(result) |-> result[i].risk_score]
                        = <<Rat(15, 100), Rat(125, 1000)>>

C5_Witness ==
    /\ op = "get_projects_needing_attention"
    /\ ExampleInput
    /\ Len(result) = 2
    /\ result[1].project_id = 1 /\ result[2].project_id = 2

\* the rule of the claim for one project
Qualifies(i) ==
    \/ RLt(LatestIndex(projects_df[i].project_id, "spi"), spi_threshold)
    \/ RLt(LatestIndex(projects_df[i].project_id, "cpi"), cpi_threshold)
    \/ projects_df[i].status \in {AtRisk, Delayed}

\* C6: a project is in the output iff its latest spi < spi_threshold, or its
\* latest cpi < cpi_threshold, or its status is At Risk or Delayed, a
\* project without history counting as spi = cpi = 1.0; no project is
\* listed twice.
C6_QualifiesIff ==
    op = "get_projects_needing_attention"
    => /\ \A i \in 1..Len(projects_df) :
              Cardinality({k \in 1..Len(result) :
                              result[k].project_id = projects_df[i].project_id})
                  = IF Qualifies(i) THEN 1 ELSE 0
       /\ \A k \in 1..Len(result) :
              \E i \in 1..Len(projects_df) :
                  result[k].project_id = projects_df[i].project_id

\* a delayed project without history is listed, a healthy one is not, and a
\* project on track is listed for its spi alone
C6_Witness ==
    /\ op = "get_projects_needing_attention"
    /\ Len(projects_df) = 3
    /\ projects_df[1].status = Delayed /\ HistoryRowsOf(1) = {}
    /\ projects_df[2].status = OnTrack /\ ~Qualifies(2)
    /\ projects_df[3].status = OnTrack /\ Qualifies(3)
    /\ {result[k].project_id : k \in 1..Len(result)} = {1, 3}

\* ------------------------------------------------------------------------
\* detect_project_anomalies (src/app.py, src/utils/advanced_analytics.py)
\*
\* A metric matrix is a sequence of rows, one per project and in the order
\* of projects_df.index, each row a sequence of cells, one per metric.
\* ------------------------------------------------------------------------
SmallSampleLimit == 10
RandomSeed == 42
\* the forests of the code grow 100 trees; the model grows MaxEstimators
MaxEstimators == 3

Cols(X) == IF X = << >> THEN {} ELSE 1..Len(X[1])
Column(X, c) == [i \in 1..Len(X) |-> X[i][c]]
NotNaN(v) == ~IsNaN(v)

\* Series.mean(): the mean of the cells that are not NaN
series_mean(col) ==
    IF SelectSeq(col, NotNaN) = << >> THEN NaN
    ELSE RMean(SelectSeq(col, NotNaN))

\* metrics.fillna(metrics.mean())
fillna_mean(X) ==
    [i \in 1..Len(X) |->
        [c \in Cols(X) |-> IF IsNaN(X[i][c]) THEN series_mean(Column(X, c))
                           ELSE X[i][c]]]

SquaredDeviations(col, mean) ==
    [i \in 1..Len(col) |-> RMul(RSub(col[i], mean), RSub(col[i], mean))]

\* the square of Series.std(): the sample variance (ddof = 1), NaN for
\* fewer than two cells
series_var(col) ==
    IF Len(col) < 2 THEN NaN
    ELSE RDiv(RSum(SquaredDeviations(col, series_mean(col))), R(Len(col) - 1))

\* (x > mean + 3*std) | (x < mean - 3*std), with std*std = var
beyond_three_std(x, mean, var) ==
    RGt(RMul(RSub(x, mean), RSub(x, mean)), RMul(R(3 * 3), var))

outlier_columns(metrics, i) ==
    {c \in Cols(metrics) :
        beyond_three_std(metrics[i][c], series_mean(Column(metrics, c)),
                         series_var(Column(metrics, c)))}

\* pd.DataFrame()
EmptyFrame == [raised |-> FALSE, is_anomaly |-> << >>, anomaly_score |-> << >>]

\* fewer than 10 rows: simple statistical thresholds
small_sample_anomalies(metrics) ==
    [raised |-> FALSE,
     is_anomaly |-> [i \in 1..Len(metrics) |-> outlier_columns(metrics, i) # {}],
     anomaly_score |->
         [i \in 1..Len(metrics) |-> Cardinality(outlier_columns(metrics, i))]]

\* numpy's generator, modelled as a congruential generator of period 16
rng_next(s) == (5 * s + 3) % 16
\* np.random.RandomState(seed)
RandomState(seed) == seed % 16

RECURSIVE rng_after(_, _)
\* the state after k draws
rng_after(s, k) == IF k = 0 THEN s ELSE rng_after(rng_next(s), k - 1)
\* a draw in 0..3, from the high bits of the state
rng_quarter(s) == s \div 4

\* random_state = None: the forest seeded from the global generator
forest_random_state_global(global_state) == global_state

\* random_state = 42: the global generator is at hand and is not used
forest_random_state(global_state) == RandomSeed

HasNaNCell(X) == \E i \in 1..Len(X) : \E c \in Cols(X) : IsNaN(X[i][c])

\* StandardScaler().fit_transform(metrics): the cells are centred on the
\* column mean.  The forest compares a cell only with thresholds drawn
\* inside the range of the cell's own column, so the division by the
\* column's standard deviation (positive, 1 when the column is constant)
\* changes no comparison and the cells are kept in the column's own unit.
StandardScaler_fit_transform(X) ==
    [i \in 1..Len(X) |->
        [c \in Cols(X) |-> RSub(X[i][c], series_mean(Column(X, c)))]]

RECURSIVE CeilLog2(_)
CeilLog2(n) == IF n <= 1 THEN 0 ELSE 1 + CeilLog2((n + 1) \div 2)
\* max_depth = ceil(log2(max(max_samples, 2))), max_samples = min(256, n)
max_depth(n) == CeilLog2(IF n < 2 THEN 2 ELSE n)

RECURSIVE Harmonic(_)
Harmonic(k) == IF k = 0 THEN Zero ELSE RAdd(Rat(1, k), Harmonic(k - 1))
\* _average_path_length: the average depth of an unsuccessful search among
\* m rows, with the harmonic number where sklearn takes ln(m-1) + 0.5772
average_path_length(m) ==
    IF m <= 1 THEN Zero
    ELSE IF m = 2 THEN One
    ELSE RSub(RMul(R(2), Harmonic(m - 1)), Rat(2 * (m - 1), m))

\* the columns in which the rows S of a node differ
NonConstant(X, S) ==
    {c \in Cols(X) : Cardinality({X[j][c] : j \in S}) > 1}
Nth(S, k) == CHOOSE x \in S : Cardinality({y \in S : y < x}) = k
SetMin(V) == CHOOSE v \in V : \A w \in V : RLe(v, w)
SetMax(V) == CHOOSE v \in V : \A w \in V : RGe(v, w)

\* the random splitter: a column among those that differ, a threshold
\* inside the range of that column
split_feature(features, seed) ==
    Nth(features, rng_quarter(rng_after(seed, 1)) % Cardinality(features))
split_threshold(V, seed) ==
    RAdd(SetMin(V),
         RMul(RSub(SetMax(V), SetMin(V)),
              Rat(2 * rng_quarter(rng_after(seed, 2)) + 1, 8)))
split_left(X, S, c, threshold) == {j \in S : RLe(X[j][c], threshold)}
node_split(X, S, c, seed) ==
    split_left(X, S, c, split_threshold({X[j][c] : j \in S}, seed))

RECURSIVE tree_grow(_, _, _, _, _)
RECURSIVE tree_node(_, _, _, _, _)
\* the tree grown from seed over the rows S at a depth: the path length of
\* each row of S
tree_node(X, S, depth, seed, features) ==
    IF depth >= max_depth(Len(X)) \/ features = {}
    THEN [i \in S |-> RAdd(R(depth), average_path_length(Cardinality(S)))]
    ELSE tree_grow(X, S, depth, seed,
                   node_split(X, S, split_feature(features, seed), seed))
tree_grow(X, S, depth, seed, left) ==
    tree_node(X, left, depth + 1, rng_after(seed, 3), NonConstant(X, left))
    @@ tree_node(X, S \ left, depth + 1, rng_after(seed, 4),
                 NonConstant(X, S \ left))
path_lengths(X, seed) ==
    tree_node(X, 1..Len(X), 0, seed, NonConstant(X, 1..Len(X)))

RECURSIVE grow_trees(_, _, _)
\* the first t trees of the forest; tree t is seeded with the t-th draw of
\* the forest's generator
grow_trees(X, state, t) ==
    IF t = 0 THEN << >>
    ELSE Append(grow_trees(X, state, t - 1),
                path_lengths(X, rng_after(state, t)))

\* the path length of every row, summed over the trees
forest_sum(n, trees) ==
    [i \in 1..n |-> RSum([t \in 1..Len(trees) |-> trees[t][i]])]
forest_path_lengths(X, state) ==
    forest_sum(Len(X), grow_trees(X, state, MaxEstimators))

\* the r-th smallest cell of h, r from 0
OrderStatistic(h, r) ==
    CHOOSE v \in {h[j] : j \in 1..Len(h)} :
        /\ Cardinality({j \in 1..Len(h) : RLt(h[j], v)}) <= r
        /\ r < Cardinality({j \in 1..Len(h) : RLe(h[j], v)})

\* np.percentile(h, 100 * q), linear interpolation
percentile_between(lo, hi, frac) == RAdd(lo, RMul(frac, RSub(hi, lo)))
percentile_at(h, pos) ==
    percentile_between(OrderStatistic(h, Floor(pos)),
                       OrderStatistic(h, IF Floor(pos) + 1 < Len(h)
                                         THEN Floor(pos) + 1 ELSE Floor(pos)),
                       RSub(pos, R(Floor(pos))))
percentile(h, q) == percentile_at(h, RMul(R(Len(h) - 1), q))

\* predict: -1 where decision_function < 0, that is where the score is
\* below offset_ = percentile(scores, 100 * contamination).  The score
\* -2^(-E[h]/c) grows with the path length h, so the rows below the
\* percentile of the scores are the rows below the percentile of h.
forest_outliers(h, offset) == [i \in 1..Len(h) |-> RLt(h[i], offset)]
forest_predict(h, q) == forest_outliers(h, percentile(h, q))

\* IsolationForest(contamination, random_state).fit(X).predict(X)
isolation_forest(X, q, random_state) ==
    forest_predict(forest_path_lengths(X, RandomState(random_state)), q)

\* app.py, from the filled matrix on
dpa_filled(metrics, q, global_state) ==
    IF Len(metrics) < SmallSampleLimit THEN small_sample_anomalies(metrics)
    \* sklearn refuses NaN; the exception is caught, pd.DataFrame() returned
    ELSE IF HasNaNCell(metrics) THEN EmptyFrame
    \* anomaly_score = |decision_function| is not modelled
    ELSE [raised |-> FALSE,
          is_anomaly |->
              isolation_forest(StandardScaler_fit_transform(metrics), q,
                               forest_random_state(global_state))]

detect_project_anomalies(metrics, q, global_state) ==
    IF metrics = << >> THEN EmptyFrame
    ELSE dpa_filled(fillna_mean(metrics), q, global_state)

adv_anomaly_scores(outliers) ==
    [raised |-> FALSE, is_anomaly |-> outliers,
     anomaly_score |-> [i \in 1..Len(outliers) |->
                           IF outliers[i] THEN -1 ELSE 1]]

\* advanced_analytics.py, from the filled matrix on: no small-sample
\* branch, no try
adv_dpa_filled(X, q, global_state) ==
    IF HasNaNCell(X) THEN Raised
    ELSE adv_anomaly_scores(
             isolation_forest(StandardScaler_fit_transform(X), q,
                              forest_random_state(global_state)))

adv_detect_project_anomalies(df, q, global_state) ==
    \* the table is returned as it is, without the two columns
    IF df = << >> THEN [raised |-> FALSE, is_anomaly |-> Absent]
    ELSE adv_dpa_filled(fillna_mean(df), q, global_state)

\* np.random.randint(-2, 3)
randint_value(state) == (state % 5) - 2

\* ------------------------------------------------------------------------
\* The anomaly detectors, called again and again in one session
\* ------------------------------------------------------------------------
MaxRows == 10
MaxDraws == 2

ContaminationValues == {Tenth, Rat(3, 10)}
DeviatingValues == {R(50), R(100)}

\* one metric, every project at 1 but for none, the first, the last, or
\* the last two
OneColumnMatrices(n) ==
    {[i \in 1..n |-> <<IF i = k THEN v ELSE One>>] :
        k \in {0, 1, n}, v \in DeviatingValues}
    \cup {[i \in 1..n |-> <<IF i = n - 1 THEN v ELSE IF i = n THEN w ELSE One>>] :
             v \in DeviatingValues, w \in DeviatingValues}
LargeMatrices ==
    UNION {OneColumnMatrices(n) : n \in (SmallSampleLimit - 1)..MaxRows}
\* two metrics, at most two projects, cells that may be empty
SmallMatrices ==
    UNION {[1..n -> [1..2 -> {NaN, One, R(100)}]] : n \in 0..2}

InitAnomaly ==
    /\ metrics_df \in LargeMatrices \cup SmallMatrices
    /\ contamination \in ContaminationValues
    /\ np_random = 0
    /\ first_call = {}
    /\ NoSession
    /\ spi_threshold = DefaultSpiThreshold
    /\ cpi_threshold = DefaultCpiThreshold
    /\ NoForecastInputs
    /\ NoTables
    /\ op = "idle"
    /\ result = NoResult

\* the first detection of the session is kept, with the generator's state
FirstCall(name, returned) ==
    IF first_call = {}
    THEN {[detector |-> name, np_random |-> np_random, result |-> returned]}
    ELSE first_call

CallDetectProjectAnomalies ==
    /\ op' = "detect_project_anomalies"
    /\ result' = detect_project_anomalies(metrics_df, contamination, np_random)
    /\ first_call' = FirstCall("detect_project_anomalies", result')
    /\ UNCHANGED <<session, finputs, thresholds, tables, metrics_df, contamination,
                   np_random>>

CallAdvDetectProjectAnomalies ==
    /\ op' = "adv_detect_project_anomalies"
    /\ result' = adv_detect_project_anomalies(metrics_df, contamination,
                                              np_random)
    /\ first_call' = FirstCall("adv_detect_project_anomalies", result')
    /\ UNCHANGED <<session, finputs, thresholds, tables, metrics_df, contamination,
                   np_random>>

\* the draws made since the session began
DrawCount(state) == CHOOSE k \in 0..15 : rng_after(0, k) = state

\* np.random.randint(-2, 3) elsewhere in the session (data_processor.py):
\* a draw from the global generator
DrawRandint ==
    /\ DrawCount(np_random) < MaxDraws
    /\ np_random' = rng_next(np_random)
    /\ op' = "np_random_randint"
    /\ result' = [raised |-> FALSE, value |-> randint_value(np_random')]
    /\ UNCHANGED <<session, finputs, thresholds, tables, metrics_df, contamination,
                   first_call>>

NextAnomaly ==
    \/ CallDetectProjectAnomalies
    \/ CallAdvDetectProjectAnomalies
    \/ DrawRandint

SpecAnomaly == InitAnomaly /\ [][NextAnomaly]_vars

\* ------------------------------------------------------------------------
\* Properties of the anomaly detectors (SpecAnomaly)
\* ------------------------------------------------------------------------
Others(col, i) == SubSeq(col, 1, i - 1) \o SubSeq(col, i + 1, Len(col))

\* the cell of row i in column c lies more than three standard deviations
\* of the other rows away from the other rows
FarFromOthers(X, i, c) ==
    beyond_three_std(X[i][c], series_mean(Others(Column(X, c), i)),
                     series_var(Others(Column(X, c), i)))

\* C7: in a matrix of 9 projects in which exactly one project has, in one
\* column, a value more than 3 standard deviations away from the other
\* eight, the small-sample fallback flags that project and no other.
C7_SmallSampleOutlierFlagged ==
    /\ op = "detect_project_anomalies"
    /\ Len(metrics_df) = SmallSampleLimit - 1
    => \A i \in 1..Len(metrics_df) :
           /\ \E c \in Cols(metrics_df) : FarFromOthers(metrics_df, i, c)
           /\ \A j \in 1..Len(metrics_df) : \A c \in Cols(metrics_df) :
                  j # i => ~FarFromOthers(metrics_df, j, c)
           => result.is_anomaly = [j \in 1..Len(metrics_df) |-> j = i]

\* C8: a detector called again with the same matrix and the same
\* contamination returns the same is_anomaly set as its first call,
\* whatever was drawn from the global generator in between.
C8_Deterministic ==
    \A f \in first_call :
        op = f.detector
        => /\ result.raised = f.result.raised
           /\ ~result.raised => result.is_anomaly = f.result.is_anomaly

\* the forest of app.py ran twice on ten projects, the global generator
\* moved in between, and a project is flagged
C8_Witness ==
    /\ op = "detect_project_anomalies"
    /\ Len(metrics_df) >= SmallSampleLimit
    /\ \E f \in first_call :
           /\ f.detector = op
           /\ f.np_random # np_random
           /\ f.result.is_anomaly = result.is_anomaly
    /\ \E i \in 1..Len(metrics_df) : result.is_anomaly[i]

\* ------------------------------------------------------------------------
\* generate_nlp_insights (src/app.py)
\*
\* An insight is the fixed text of its message and the numbers formatted
\* into it.  A cell may also hold text where a number is expected
\* (TextCell): it is not null, and comparing it with a number raises.
\* ------------------------------------------------------------------------
TextCell == <<1, -1>>
\* 'x' in project and not pd.isnull(project['x'])
present(x) == ~IsAbsent(x) /\ ~IsNaN(x)

Insight(text, values) == [text |-> text, values |-> values]
\* what a stage of a try block leaves: the items it appended, and whether
\* it raised
Stage(items) == [raised |-> FALSE, items |-> items]
StageRaised == [raised |-> TRUE, items |-> << >>]

\* the five bands of an index, x > 1.1 first
gni_band(x) ==
    IF RGt(x, Rat(11, 10)) THEN "excellent"
    ELSE IF RGt(x, One) THEN "good"
    ELSE IF RGt(x, Rat(9, 10)) THEN "acceptable"
    ELSE IF RGt(x, Rat(8, 10)) THEN "concerning"
    ELSE "critical"

\* lines 2099-2109 (spi) and 2111-2121 (cpi)
gni_index(p, f, subject) ==
    IF ~present(p[f]) THEN Stage(<< >>)
    ELSE IF p[f] = TextCell THEN StageRaised
    ELSE Stage(<<Insight(subject \o " performance is " \o gni_band(p[f]),
                         <<p[f]>>)>>)

gni_progress_text(progress_diff) ==
    IF RLt(progress_diff, R(-20))
    THEN <<"Project is significantly behind expected progress">>
    ELSE IF RLt(progress_diff, R(-10))
    THEN <<"Project is behind expected progress">>
    ELSE IF RGt(progress_diff, R(20))
    THEN <<"Project is significantly ahead of expected progress">>
    ELSE IF RGt(progress_diff, R(10))
    THEN <<"Project is ahead of expected progress">>
    ELSE << >>

gni_expected_progress(p, days_to_end) ==
    RSub(R(100),
         RMul(RDiv(days_to_end,
                   IF IsAbsent(p.planned_duration) THEN R(100)
                   ELSE p.planned_duration),
              R(100)))

gni_progress_items(p, expected_progress) ==
    [i \in 1..Len(gni_progress_text(RSub(p.completion_pct, expected_progress)))
        |-> Insight(gni_progress_text(RSub(p.completion_pct,
                                           expected_progress))[i],
                    <<p.completion_pct, expected_progress>>)]

\* lines 2123-2144
gni_progress(p, today) ==
    IF present(p.completion_pct) /\ present(p.planned_end)
       /\ RGt(Days(RSub(p.planned_end, today)), Zero)
    THEN Stage(gni_progress_items(
                   p, gni_expected_progress(p, Days(RSub(p.planned_end, today)))))
    ELSE Stage(<< >>)

\* lines 2146-2154
gni_risk(p) ==
    IF present(p.risk_count) /\ present(p.risk_score)
    THEN IF RGt(p.risk_count, R(10)) /\ RGt(p.risk_score, R(30))
         THEN Stage(<<Insight("High risk profile",
                              <<p.risk_count, p.risk_score>>)>>)
         ELSE IF RGt(p.risk_count, R(5)) /\ RGt(p.risk_score, R(20))
         THEN Stage(<<Insight("Elevated risk profile",
                              <<p.risk_count, p.risk_score>>)>>)
         ELSE IF p.risk_count = Zero
         THEN Stage(<<Insight("No risks identified", << >>)>>)
         ELSE Stage(<< >>)
    ELSE Stage(<< >>)

RECURSIVE try_stages(_)
\* the items appended by the stages of a try block, up to the first stage
\* that raises
try_stages(stages) ==
    IF stages = << >> \/ Head(stages).raised THEN << >>
    ELSE Head(stages).items \o try_stages(Tail(stages))

generate_nlp_insights(p, today) ==
    try_stages(<<gni_index(p, "spi", "Schedule"), gni_index(p, "cpi", "Cost"),
                 gni_progress(p, today), gni_risk(p)>>)

\* ------------------------------------------------------------------------
\* generate_project_forecasts (src/app.py) and the session around it
\*
\* A forecast set is a function from project_id to forecast; the empty
\* dictionary is << >>.  A table without rows is the column-less
\* pd.DataFrame() that stands for a file that was not uploaded.
\* ------------------------------------------------------------------------
CacheSeconds == 3600

\* lines 1962-1969: the forecast before the try block
fpc_initial ==
    [forecast_completion_date |-> None, completion_confidence |-> Zero,
     forecast_final_cost |-> None, schedule_variance_days |-> Zero,
     cost_variance |-> Zero, risk_factors |-> << >>,
     remaining_duration |-> None]

\* the comparisons of a text cell with a number, which raise TypeError
fpc_schedule_raises(p) ==
    present(p.planned_end) /\ present(p.planned_start) /\ p.spi = TextCell
fpc_cost_raises(p) == present(p.budget) /\ p.cpi = TextCell
fpc_risk_raises(p) == p.spi = TextCell \/ p.cpi = TextCell

\* the forecast as the except clause finds it: the parts stored before
\* the exception, risk_factors still empty
fpc_interrupted(sched, cost) ==
    [fpc_initial EXCEPT
        !.forecast_completion_date = sched.forecast_completion_date,
        !.completion_confidence = sched.completion_confidence,
        !.schedule_variance_days = sched.schedule_variance_days,
        !.remaining_duration = sched.remaining_duration,
        !.forecast_final_cost = cost.forecast_final_cost,
        !.cost_variance = cost.cost_variance]

\* lines 1971-2079: forecast_project_completion with its try block
fpc_try(p, today, spi_thr, cpi_thr) ==
    IF fpc_schedule_raises(p) THEN fpc_initial
    ELSE IF fpc_cost_raises(p)
    THEN fpc_interrupted(fpc_schedule(p, today), fpc_initial)
    ELSE IF fpc_risk_raises(p)
    THEN fpc_interrupted(fpc_schedule(p, today), fpc_cost(p))
    ELSE forecast_project_completion(p, today, spi_thr, cpi_thr)

\* lines 2276-2296: st.session_state.anomalies is None (line 195) and is
\* assigned nowhere, so no project is marked
gpf_entry(p, today, spi_thr, cpi_thr) ==
    fpc_try(p, today, spi_thr, cpi_thr)
    @@ [insights |-> generate_nlp_insights(p, today),
        is_anomaly |-> FALSE, anomaly_score |-> 0]

\* the row that is stored last under a project_id
gpf_last_row(projects, id) ==
    projects[CHOOSE i \in 1..Len(projects) :
                 /\ projects[i].project_id = id
                 /\ \A j \in (i + 1)..Len(projects) : projects[j].project_id # id]

\* gpf_forecasts without the projects whose forecast raises
gpf_forecasts_without_failed(projects, today, spi_thr, cpi_thr) ==
    [id \in {projects[i].project_id : i \in {j \in 1..Len(projects) :
                                                ~fpc_risk_raises(projects[j])}} |->
        gpf_entry(gpf_last_row(projects, id), today, spi_thr, cpi_thr)]

\* lines 2263-2298: one forecast per project_id
gpf_forecasts(projects, today, spi_thr, cpi_thr) ==
    [id \in {projects[i].project_id : i \in 1..Len(projects)} |->
        gpf_entry(gpf_last_row(projects, id), today, spi_thr, cpi_thr)]

\* timedelta.total_seconds(), the difference given in days
total_seconds(d) == RMul(d, R(24 * 60 * 60))

\* cache_valid with a cache of exactly one hour still valid
cache_valid_inclusive(cache, generated_at, today) ==
    /\ cache # << >>
    /\ generated_at # None
    /\ RLe(total_seconds(RSub(today, generated_at)), R(CacheSeconds))

\* lines 2257-2260: the cache holds forecasts generated less than an hour ago
cache_valid(cache, generated_at, today) ==
    /\ cache # << >>
    /\ generated_at # None
    /\ RLt(total_seconds(RSub(today, generated_at)), R(CacheSeconds))

gpf_returned(forecasts, cache, generated_at) ==
    [raised |-> FALSE, forecasts |-> forecasts,
     project_forecasts |-> cache, forecast_generated_at |-> generated_at]

\* lines 2300-2303: the forecasts are cached and returned
gpf_computed(forecasts, today) == gpf_returned(forecasts, forecasts, today)

\* the value returned, and the cache as the call leaves it
generate_project_forecasts(loaded, projects, task_table, cache, at, today, spi_thr, cpi_thr) ==
    IF ~loaded THEN gpf_returned(<< >>, cache, at)
    ELSE IF cache_valid(cache, at, today)
    THEN gpf_returned(cache, cache, at)
    \* line 2267: KeyError 'project_id' on a task table without columns
    ELSE IF projects # << >> /\ task_table = << >>
    THEN [raised |-> TRUE, forecasts |-> << >>,
          project_forecasts |-> cache, forecast_generated_at |-> at]
    ELSE gpf_computed(gpf_forecasts(projects, today, spi_thr, cpi_thr), today)

\* ---- the session: tables, sliders, the clock ----------------------------
MaxTicks == 2

\* the clock moves in steps of thirty minutes
TickLength == Rat(1, 48)
SessionStart == R(12)

SessionRow(id, spi, cpi, planned_end) ==
    [project_id |-> id, planned_start |-> R(10), planned_end |-> planned_end,
     spi |-> spi, cpi |-> cpi, budget |-> R(100), actual_cost |-> R(40),
     completion_pct |-> R(40), risk_count |-> R(6), risk_score |-> R(25),
     planned_duration |-> R(10)]

HealthyRow(id) == SessionRow(id, One, One, R(20))
LateRow(id) == SessionRow(id, Rat(17, 20), Rat(4, 5), R(20))
UndatedRow(id) == SessionRow(id, One, Rat(4, 5), NaN)
\* a row whose spi column holds text
GarbledRow(id) == SessionRow(id, TextCell, One, R(20))
\* a row whose cpi column holds text
GarbledCostRow(id) == SessionRow(id, One, TextCell, R(20))

\* a row of generate_mock_data (data_generator.py lines 98-121): the table
\* has a budget column and none of the other columns that the forecast reads
MockRow(id) ==
    [project_id |-> id, planned_start |-> Absent, planned_end |-> Absent,
     spi |-> Absent, cpi |-> Absent, budget |-> R(100), actual_cost |-> Absent,
     completion_pct |-> Absent, risk_count |-> Absent, risk_score |-> Absent,
     planned_duration |-> Absent]

\* generate_mock_data seeds the generator (data_generator.py line 32): the
\* tables are the same on every load
MockProjects == <<MockRow(1), MockRow(2)>>
MockTasks == <<[project_id |-> 1, planned_cost |-> R(10),
                actual_cost |-> R(10), earned_value |-> R(10)]>>
MockHistory == <<[project_id |-> 1, month |-> 1, spi |-> One, cpi |-> One]>>

UploadedProjects ==
    {<<LateRow(1), HealthyRow(2)>>,
     <<GarbledRow(1), HealthyRow(2), GarbledCostRow(3)>>,
     <<UndatedRow(1)>>}

\* the files of an upload: the projects file, and the optional task and
\* history files
UploadedFiles ==
    {<<projects, MockTasks, MockHistory>> : projects \in UploadedProjects}
    \cup {<<<<LateRow(1), HealthyRow(2)>>, << >>, MockHistory>>,
          <<<<LateRow(1), HealthyRow(2)>>, MockTasks, << >> >>}

SliderValues == {Rat(90, 100), One}

InitSession ==
    /\ project = << >> /\ tasks = << >> /\ history = << >>
    /\ now = SessionStart
    /\ spi_threshold = DefaultSpiThreshold
    /\ cpi_threshold = DefaultCpiThreshold
    /\ forecast_horizon = DefaultForecastHorizon
    /\ op = "start"
    /\ result = NoResult
    /\ NoTables
    /\ NoDetector
    /\ NoSession

\* lines 231-258: load_data; calculate_portfolio_metrics draws twice from
\* the generator that generate_mock_data has just seeded
LoadData ==
    /\ projects_df' = MockProjects
    /\ tasks_df' = MockTasks
    /\ history_df' = MockHistory
    /\ np_random' = rng_after(RandomState(RandomSeed), 2)
    /\ data_loaded' = TRUE
    /\ op' = "load_data"
    /\ result' = NoResult
    /\ UNCHANGED <<project_forecasts, forecast_generated_at, finputs,
                   thresholds, metrics_df, contamination, first_call>>

\* lines 3316-3349: upload_data with a projects file; the tables are stored
\* before calculate_portfolio_metrics runs, which raises KeyError on a
\* history table without columns and then leaves data_loaded as it was
UploadData ==
    \E files \in UploadedFiles :
        /\ projects_df' = files[1]
        /\ tasks_df' = files[2]
        /\ history_df' = files[3]
        /\ IF files[3] = << >>
           THEN /\ result' = Raised
                /\ UNCHANGED <<data_loaded, np_random>>
           ELSE /\ result' = NoResult
                /\ data_loaded' = TRUE
                /\ np_random' = rng_after(np_random, 2)
        /\ op' = "upload_data"
        /\ UNCHANGED <<project_forecasts, forecast_generated_at, finputs,
                       thresholds, metrics_df, contamination, first_call>>

\* line 643: the SPI threshold slider
SetSpiThreshold ==
    \E v \in SliderValues \ {spi_threshold} :
        /\ spi_threshold' = v
        /\ op' = "spi_threshold"
        /\ result' = NoResult
        /\ UNCHANGED <<cpi_threshold, session, finputs, tables, detector>>

\* line 652: the CPI threshold slider
SetCpiThreshold ==
    \E v \in SliderValues \ {cpi_threshold} :
        /\ cpi_threshold' = v
        /\ op' = "cpi_threshold"
        /\ result' = NoResult
        /\ UNCHANGED <<spi_threshold, session, finputs, tables, detector>>

\* datetime.now() moves on
Tick ==
    /\ RLt(now, RAdd(SessionStart, RMul(R(MaxTicks), TickLength)))
    /\ now' = RAdd(now, TickLength)
    /\ op' = "tick"
    /\ result' = NoResult
    /\ UNCHANGED <<project, tasks, history, forecast_horizon, session,
                   thresholds, tables, detector>>

StoreForecasts(returned) ==
    /\ result' = [raised |-> returned.raised, forecasts |-> returned.forecasts]
    /\ project_forecasts' = returned.project_forecasts
    /\ forecast_generated_at' = returned.forecast_generated_at

\* lines 2251-2303
CallGenerateProjectForecasts ==
    /\ StoreForecasts(generate_project_forecasts(
           data_loaded, projects_df, tasks_df, project_forecasts,
           forecast_generated_at, now, spi_threshold, cpi_threshold))
    /\ op' = "generate_project_forecasts"
    /\ UNCHANGED <<data_loaded, tasks_df, finputs, thresholds, tables,
                   detector>>

NextSession ==
    \/ LoadData
    \/ UploadData
    \/ SetSpiThreshold
    \/ SetCpiThreshold
    \/ Tick
    \/ CallGenerateProjectForecasts

SpecSession == InitSession /\ [][NextSession]_vars

\* the forecasts of the tables and thresholds the session holds now
CurrentForecasts ==
    gpf_forecasts(projects_df, forecast_generated_at,
                  spi_threshold, cpi_threshold)

Generated ==
    /\ op = "generate_project_forecasts"
    /\ ~result.raised
    /\ data_loaded

\* C11: every forecast set that generate_project_forecasts returns is the
\* forecast of the tables and thresholds of the session at that moment;
\* load_data, upload_data and the threshold sliders never leave forecasts
\* of earlier data to be served.
C11_NeverStale == Generated => result.forecasts = CurrentForecasts

ProjectIds(projects) == {projects[i].project_id : i \in 1..Len(projects)}

\* a call that computes: data loaded, no valid cache, a task table with a
\* project_id column
Computes ==
    /\ op' = "generate_project_forecasts"
    /\ data_loaded
    /\ tasks_df # << >>
    /\ ~cache_valid(project_forecasts, forecast_generated_at, now)

\* the entry of a project whose forecast raised: nothing where the
\* computation stopped
FailedEntry(p, e) ==
    /\ e.risk_factors = << >>
    /\ p.spi = TextCell =>
           e.forecast_completion_date = None /\ e.completion_confidence = Zero
    /\ p.cpi = TextCell => e.forecast_final_cost = None

C13_FiniteForecast ==
    op = "prepare_forecast_data"
    => /\ ~result.raised
       /\ IsNum(result.schedule_variance_days)
       /\ IsNum(result.forecast_cost)

\* C14: over the tasks of a project, spi = sum(earned_value) /
\* sum(planned_cost) and cpi = sum(earned_value) / sum(actual_cost); spi is
\* 1.0 exactly when sum(planned_cost) = 0 and cpi is 1.0 by default exactly
\* when sum(actual_cost) = 0, also when sum(planned_cost) = 0.
C14_IndexAggregation ==
    (/\ op = "predict_project_completion"
     /\ ~result.raised
     /\ tasks # << >>)
    => /\ result.spi =
              IF SumField(tasks, "planned_cost") = Zero THEN One
              ELSE RDiv(SumField(tasks, "earned_value"),
                        SumField(tasks, "planned_cost"))
       /\ result.cpi =
              IF SumField(tasks, "actual_cost") = Zero THEN One
              ELSE RDiv(SumField(tasks, "earned_value"),
                        SumField(tasks, "actual_cost"))

Undated(p) == ~(IsNum(p.planned_start) /\ IsNum(p.planned_end))

\* C15: for a project without planned_start or planned_end neither
\* forecaster raises; forecast_project_completion returns no completion
\* date (schedule variance and confidence 0), generate_ensemble_forecast
\* returns its empty result: dates, costs and confidence None, no risk
\* factors, no models listed.
C15_UndatedNullResult ==
    Undated(project)
    => /\ op = "forecast_project_completion"
              => /\ result.forecast_completion_date = None
                 /\ result.schedule_variance_days = Zero
                 /\ result.completion_confidence = Zero
       /\ op = "generate_ensemble_forecast" => result.results = gef_initial

\* the ensemble called for a project with a start and no end
C15_Witness ==
    /\ op = "generate_ensemble_forecast"
    /\ IsNum(project.planned_start) /\ IsNaN(project.planned_end)
    /\ IsNum(project.spi) /\ RGt(project.spi, Zero)
    /\ result.results.completion_date = None
    /\ result.results.forecast_models = << >>

\* the five bands with each cut point in the band above it
HigherBand(x) ==
    IF RGe(x, Rat(11, 10)) THEN "excellent"
    ELSE IF RGe(x, One) THEN "good"
    ELSE IF RGe(x, Rat(9, 10)) THEN "acceptable"
    ELSE IF RGe(x, Rat(8, 10)) THEN "concerning"
    ELSE "critical"

\* C16: generate_nlp_insights puts each non-null SPI in exactly one of the
\* bands excellent / good / acceptable / concerning / critical with cut
\* points 1.1, 1.0, 0.9, 0.8, a value equal to a cut point belonging to
\* the higher band (spi = 1.0 is good); seen in the insights of the
\* forecasts that generate_project_forecasts computes.
C16_CutPointInHigherBand ==
    [][Computes =>
          \A i \in 1..Len(projects_df) :
              IsNum(projects_df[i].spi) =>
                  result'.forecasts[projects_df[i].project_id].insights[1].text =
                      "Schedule performance is " \o HigherBand(projects_df[i].spi)]_vars

\* C17: two listed projects with equal risk_score appear in the order they
\* have in the projects table (whose k-th row is project k), for every
\* input.
C17_StableSort ==
    op = "get_projects_needing_attention"
    => \A i \in 1..Len(result) : \A j \in (i + 1)..Len(result) :
           result[i].risk_score = result[j].risk_score
               => result[i].project_id < result[j].project_id

\* C18: for a project with a budget and cpi <= 0 forecast_project_completion
\* still returns a final cost, the fallback forecast_final_cost = 1.5 *
\* budget, with cost_variance = 0.5 * budget.
C18_CostFallback ==
    (/\ op = "forecast_project_completion"
     /\ IsNum(project.budget)
     /\ IsNum(project.cpi) /\ RLe(project.cpi, Zero))
    => /\ result.forecast_final_cost = RMul(Rat(3, 2), project.budget)
       /\ result.cost_variance = RMul(Half, project.budget)

\* planned_duration - elapsed as forecast_project_completion counts them
RawRemaining(p, today) ==
    RSub(Days(RSub(p.planned_end, p.planned_start)),
         IF RLt(today, p.planned_start) THEN Zero
         ELSE Days(RSub(today, p.planned_start)))

\* C19: for a dated project with an spi the EVM forecast produces a
\* completion date; its remaining_duration is planned_duration - elapsed
\* when spi <= 0 and max(0, planned_duration - elapsed) / spi when spi > 0.
C19_RemainingDuration ==
    (/\ op = "forecast_project_completion"
     /\ IsNum(project.planned_start) /\ IsNum(project.planned_end)
     /\ IsNum(project.spi))
    => /\ result.forecast_completion_date # None
       /\ result.remaining_duration =
              IF RGt(project.spi, Zero)
              THEN RDiv(RMax(Zero, RawRemaining(project, now)), project.spi)
              ELSE RawRemaining(project, now)

\* the returned completion date is the 75/25 blend with the trend date
UsesTrend ==
    /\ result.locals.ml_completion_date # None
    /\ result.results.completion_date =
           RAdd(RMul(TrendWeight, result.locals.ml_completion_date),
                RMul(EvmWeight, result.locals.evm_completion_date))

\* C20: generate_ensemble_forecast blends the trend projection into the
\* completion date if and only if the history has at least 3 points and
\* the mean of the projected SPI values over the horizon is > 0; otherwise
\* the result is the EVM-only forecast.
C20_TrendIffUsable ==
    (/\ op = "generate_ensemble_forecast"
     /\ CompleteProject(project))
    => /\ UsesTrend <=> TrendUsable(history, forecast_horizon)
       /\ ~TrendUsable(history, forecast_horizon)
              => /\ result.results.completion_date =
                        result.locals.evm_completion_date
                 /\ result.results.forecast_models = <<EvmModel>>

Listed(models, name) == \E i \in 1..Len(models) : models[i] = name

\* C21: in every result of generate_ensemble_forecast forecast_models lists
\* "Linear Regression" if and only if the returned completion_date is the
\* blend with the trend projection; a trend model that is unusable or
\* failed shows in that list only, the result is never left empty.
C21_ModelsListed ==
    (/\ op = "generate_ensemble_forecast"
     /\ CompleteProject(project))
    => /\ Listed(result.results.forecast_models, LinearRegressionModel)
              <=> UsesTrend
       /\ result.results.completion_date # None

\* the result carries the EVM completion date alone
EvmOnly ==
    /\ result.results.completion_date # None
    /\ ~UsesTrend
    /\ result.results.completion_date = result.locals.evm_completion_date

\* C22: the final cost is weighted like the completion date: when the
\* completion date is trend-blended final_cost = 0.75 * trend_cost + 0.25 *
\* evm_cost, and in every EVM-only result final_cost = evm_cost.
C22_CostWeighting ==
    (/\ op = "generate_ensemble_forecast"
     /\ CompleteProject(project))
    => /\ UsesTrend
              => /\ result.locals.ml_final_cost # None
                 /\ result.results.final_cost =
                        RAdd(RMul(TrendWeight, result.locals.ml_final_cost),
                             RMul(EvmWeight, result.locals.evm_final_cost))
       /\ EvmOnly => result.results.final_cost = result.locals.evm_final_cost

\* C23: in every result of generate_ensemble_forecast that has a completion
\* date, completion_date_best = completion_date - 0.075 * planned duration
\* and completion_date_worst = completion_date + 0.15 * planned duration;
\* in every result that has a final cost, final_cost_best = 0.95 *
\* final_cost and final_cost_worst = 1.20 * final_cost; so best <= point
\* <= worst for the date when planned_end >= planned_start and for the
\* cost when final_cost >= 0.
C23_Intervals ==
    op = "generate_ensemble_forecast"
    => /\ result.results.completion_date # None
              => LET r == result.results
                     planned_duration_days ==
                         Days(RSub(project.planned_end, project.planned_start))
                 IN  /\ r.completion_date_best =
                            RSub(r.completion_date,
                                 RMul(Rat(75, 1000), planned_duration_days))
                     /\ r.completion_date_worst =
                            RAdd(r.completion_date,
                                 RMul(Rat(15, 100), planned_duration_days))
                     /\ RGe(project.planned_end, project.planned_start)
                            => /\ RLe(r.completion_date_best, r.completion_date)
                               /\ RLe(r.completion_date, r.completion_date_worst)
       /\ result.results.final_cost # None
              => LET r == result.results
                 IN  /\ r.final_cost_best = RMul(Rat(95, 100), r.final_cost)
                     /\ r.final_cost_worst = RMul(Rat(120, 100), r.final_cost)
                     /\ RGe(r.final_cost, Zero)
                            => /\ RLe(r.final_cost_best, r.final_cost)
                               /\ RLe(r.final_cost, r.final_cost_worst)

\* a project planned over ten days with a positive final cost: the interval
\* is strictly around the point forecast
C23_Witness ==
    /\ op = "generate_ensemble_forecast"
    /\ project.planned_start = R(10) /\ project.planned_end = R(20)
    /\ result.results.completion_date # None
    /\ result.results.final_cost # None
    /\ RGt(result.results.final_cost, Zero)
    /\ result.results.completion_date_best =
           RSub(result.results.completion_date, Rat(3, 4))
    /\ result.results.completion_date_worst =
           RAdd(result.results.completion_date, Rat(3, 2))
    /\ RLt(result.results.final_cost_best, result.results.final_cost)

\* the place of a risk factor in the order of the checks
RiskRank(factor) ==
    CASE factor \in {LowSpiMsg, SpiSignificantMsg, SpiBelowMsg} -> 1
      [] factor \in {LowCpiMsg, CpiSignificantMsg, CpiBelowMsg} -> 2
      [] factor = DecliningSpiMsg -> 3
      [] factor = DecliningCpiMsg -> 4
      [] factor \in {ScheduleDelayMsg, SignificantDelayMsg, ModerateDelayMsg} -> 5
      [] factor \in {CostOverrunMsg, SignificantOverrunMsg, ModerateOverrunMsg} -> 6
      [] factor = HighRiskCountMsg -> 7

InCheckOrder(factors) ==
    \A i \in 1..Len(factors) : \A j \in (i + 1)..Len(factors) :
        RiskRank(factors[i]) < RiskRank(factors[j])

\* C24: the risk_factors of a forecast are in the order of the checks: the
\* SPI-threshold factor, the CPI-threshold factor, the declining SPI and
\* CPI trend factors, the schedule-delay factor, the cost-overrun factor
\* (and, in forecast_project_completion, the risk-count factor last); the
\* list is not reordered by severity.
C24_RiskFactorOrder ==
    /\ op = "generate_ensemble_forecast"
           => InCheckOrder(result.results.risk_factors)
    /\ op = "forecast_project_completion" => InCheckOrder(result.risk_factors)

\* an ensemble result with a threshold factor, a trend factor and the
\* cost-overrun factor
C24_Witness ==
    /\ op = "generate_ensemble_forecast"
    /\ Len(result.results.risk_factors) >= 3
    /\ RiskRank(result.results.risk_factors[1]) <= 2
    /\ Listed(result.results.risk_factors, DecliningSpiMsg)
    /\ Listed(result.results.risk_factors, CostOverrunMsg)

\* the severity band of a delay or an overrun
SeverityBand(x, moderate, significant) ==
    IF RGt(x, significant) THEN "significant"
    ELSE IF RGt(x, moderate) THEN "moderate"
    ELSE "none"

\* the band that a list of risk factors reports for the schedule delay
DelayFactor(factors) ==
    IF Listed(factors, SignificantDelayMsg) \/ Listed(factors, ScheduleDelayMsg)
    THEN "significant"
    ELSE IF Listed(factors, ModerateDelayMsg) THEN "moderate"
    ELSE "none"

\* the band that a list of risk factors reports for the cost overrun
OverrunFactor(factors) ==
    IF Listed(factors, SignificantOverrunMsg) \/ Listed(factors, CostOverrunMsg)
    THEN "significant"
    ELSE IF Listed(factors, ModerateOverrunMsg) THEN "moderate"
    ELSE "none"

\* C25: the risk factors of a forecast report a schedule delay of more than
\* 30 days as significant and one in (10, 30] days as moderate, a cost
\* overrun of more than 20% as significant and one in (10%, 20%] as
\* moderate; forecast_project_completion reports an spi below
\* threshold - 0.1 as significantly below and one in
\* [threshold - 0.1, threshold) as below threshold.
C25_SeverityBands ==
    /\ (op = "forecast_project_completion" /\ IsNum(project.spi))
       => /\ Listed(result.risk_factors, SpiSignificantMsg)
               <=> RLt(project.spi, RSub(spi_threshold, Tenth))
          /\ Listed(result.risk_factors, SpiBelowMsg)
               <=> /\ RGe(project.spi, RSub(spi_threshold, Tenth))
                   /\ RLt(project.spi, spi_threshold)
          /\ DelayFactor(result.risk_factors)
               = SeverityBand(result.schedule_variance_days, R(10), R(30))
    /\ (/\ op = "generate_ensemble_forecast"
        /\ result.results.completion_date # None)
       => /\ DelayFactor(result.results.risk_factors)
               = SeverityBand(Days(RSub(result.results.completion_date,
                                        project.planned_end)), R(10), R(30))
          /\ (/\ result.results.final_cost # None
              /\ IsNum(project.budget) /\ RGt(project.budget, Zero))
             => OverrunFactor(result.results.risk_factors)
                  = SeverityBand(RMul(RDiv(RSub(result.results.final_cost,
                                                project.budget),
                                           project.budget), R(100)),
                                 R(10), R(20))

\* a dated project that has not started at the time of the call and has a
\* positive spi
NotStarted ==
    /\ IsNum(project.planned_start) /\ IsNum(project.planned_end)
    /\ RLe(project.planned_start, project.planned_end)
    /\ RLt(now, project.planned_start)
    /\ IsNum(project.spi) /\ RGt(project.spi, Zero)
    /\ IsNum(project.cpi)

\* planned_start + planned_duration / spi
UnstartedCompletionDate ==
    RAdd(project.planned_start,
         RDiv(Days(RSub(project.planned_end, project.planned_start)),
              project.spi))

\* C29: for a project whose planned_start is after now the elapsed time
\* counts as 0 in forecast_project_completion and in the EVM component of
\* generate_ensemble_forecast: the EVM completion date is
\* planned_start + planned_duration / spi.
C29_ElapsedClamped ==
    /\ (op = "forecast_project_completion" /\ NotStarted)
       => result.forecast_completion_date = UnstartedCompletionDate
    /\ (/\ op = "generate_ensemble_forecast" /\ NotStarted
        /\ result.locals.evm_completion_date # None)
       => result.locals.evm_completion_date = UnstartedCompletionDate

\* the session holds forecasts generated less than an hour before now
InsideWindow ==
    /\ project_forecasts # << >>
    /\ forecast_generated_at # None
    /\ RLt(RMul(RSub(now, forecast_generated_at), R(24 * 60 * 60)), R(3600))

MetricProjects == [i \in 1..Len(metrics_df) |-> MockRow(i)]

\* C28: the forecasts of a batch carry the result of the anomaly detection
\* over the full project set: is_anomaly of the forecast of a project is
\* what the detector returns for that project.
C28_DetectionJoined ==
    (/\ op = "detect_project_anomalies"
     /\ ~result.raised
     /\ Len(result.is_anomaly) = Len(metrics_df))
    => \A i \in 1..Len(metrics_df) :
           gpf_forecasts(MetricProjects, SessionStart, spi_threshold,
                         cpi_threshold)[i].is_anomaly = result.is_anomaly[i]

\* ------------------------------------------------------------------------
\* calculate_portfolio_metrics (src/utils/data_processor.py)
\* ------------------------------------------------------------------------
Completed == "Completed"

\* history_df.groupby('project_id'): the group keys
cpm_ids(h) == {h[i].project_id : i \in 1..Len(h)}

\* x.sort_values('month') of one group
cpm_group(h, pid) == SortByMonth(SelectSeq(h, LAMBDA r : r.project_id = pid))

\* lines 29-31: the last row by month of every group, in key order
cpm_latest(h) ==
    [k \in 1..Cardinality(cpm_ids(h)) |->
        LET x == cpm_group(h, Nth(cpm_ids(h), k - 1)) IN x[Len(x)]]

\* DataFrame.dropna(): the rows without a missing cell
cpm_dropna(rows) == SelectSeq(rows, LAMBDA r : ~IsNaN(r.spi) /\ ~IsNaN(r.cpi))

\* lines 34-36: the row before the last of every group that has one; a
\* group of one row yields None, a row of missing cells that dropna removes
cpm_previous(h) ==
    LET ids == {pid \in cpm_ids(h) : Len(cpm_group(h, pid)) > 1}
    IN  cpm_dropna([k \in 1..Cardinality(ids) |->
                       LET x == cpm_group(h, Nth(ids, k - 1)) IN x[Len(x) - 1]])

cpm_column(rows, f) == [i \in 1..Len(rows) |-> rows[i][f]]

\* lines 43-51: the change against the previous records
cpm_change(avg, previous, f) ==
    IF previous # << >> THEN RSub(avg, series_mean(cpm_column(previous, f)))
    ELSE Zero

cpm_count(projects, statuses) ==
    Cardinality({i \in 1..Len(projects) : projects[i].status \in statuses})

\* lines 11-72; state is numpy's global generator, from which lines 59-60
\* draw twice
calculate_portfolio_metrics(projects, task_table, h, state) ==
    LET latest_performance == cpm_latest(h)
        previous_month_performance == cpm_previous(h)
        avg_spi == series_mean(cpm_column(latest_performance, "spi"))
        avg_cpi == series_mean(cpm_column(latest_performance, "cpi"))
    IN  [metrics |->
            [avg_spi |-> avg_spi,
             avg_cpi |-> avg_cpi,
             spi_change |-> cpm_change(avg_spi, previous_month_performance, "spi"),
             cpi_change |-> cpm_change(avg_cpi, previous_month_performance, "cpi"),
             active_projects |->
                 Len(projects) - cpm_count(projects, {Completed}),
             at_risk_projects |-> cpm_count(projects, {AtRisk, Delayed}),
             active_projects_change |-> randint_value(rng_after(state, 1)),
             at_risk_projects_change |-> randint_value(rng_after(state, 2))],
         np_random |-> rng_after(state, 2)]

\* ------------------------------------------------------------------------
\* The portfolio metrics, computed again and again over the same tables
\* ------------------------------------------------------------------------
MaxCalls == 2

InitMetrics ==
    /\ \E cells \in Portfolios(StatusCells) \cup Portfolios(TwoMonthCells) :
          /\ projects_df = ProjectsOf(cells)
          /\ history_df = HistoryOf(cells, 1)
    \* the history table holds at least one row
    /\ history_df # << >>
    /\ spi_threshold = DefaultSpiThreshold
    /\ cpi_threshold = DefaultCpiThreshold
    /\ NoForecastInputs
    /\ NoDetector
    /\ NoSession
    /\ op = "idle"
    /\ result = NoResult

CallCalculatePortfolioMetrics ==
    /\ DrawCount(np_random) < 2 * MaxCalls
    /\ LET returned == calculate_portfolio_metrics(projects_df, tasks_df,
                                                   history_df, np_random)
       IN  /\ result' = [raised |-> FALSE, metrics |-> returned.metrics]
           /\ np_random' = returned.np_random
    /\ op' = "calculate_portfolio_metrics"
    /\ UNCHANGED <<session, finputs, thresholds, tables, metrics_df,
                   contamination, first_call>>

NextMetrics == CallCalculatePortfolioMetrics

SpecMetrics == InitMetrics /\ [][NextMetrics]_vars

\* the rows of a project in the history table
RecordsOf(pid) ==
    {history_df[j] : j \in {k \in 1..Len(history_df) :
                               history_df[k].project_id = pid}}

\* the most recent record of a project
MostRecent(pid) ==
    CHOOSE r \in RecordsOf(pid) : \A q \in RecordsOf(pid) : q.month <= r.month

\* the second-most-recent record of a project with two records or more
SecondMostRecent(pid) ==
    CHOOSE r \in RecordsOf(pid) \ {MostRecent(pid)} :
        \A q \in RecordsOf(pid) \ {MostRecent(pid)} : q.month <= r.month

TwoRecords == {pid \in cpm_ids(history_df) : Cardinality(RecordsOf(pid)) > 1}

\* no project with two records differs, in f, from its record before
Unchanged(f) == \A pid \in TwoRecords : MostRecent(pid)[f] = SecondMostRecent(pid)[f]

MeanOfMostRecent(f) ==
    LET ids == cpm_ids(history_df)
    IN  RMean([k \in 1..Cardinality(ids) |-> MostRecent(Nth(ids, k - 1))[f]])

\* C26: calculate_portfolio_metrics reports the mean over the projects of
\* the most recent record of each as avg_spi and avg_cpi; the change is 0
\* when no project has two records, and a project with a single record
\* does not distort the delta of the others: when no project with two
\* records has changed, the change is 0.
C26_PortfolioDelta ==
    op = "calculate_portfolio_metrics"
    => /\ result.metrics.avg_spi = MeanOfMostRecent("spi")
       /\ result.metrics.avg_cpi = MeanOfMostRecent("cpi")
       /\ Unchanged("spi") => result.metrics.spi_change = Zero
       /\ Unchanged("cpi") => result.metrics.cpi_change = Zero

\* C27: calculate_portfolio_metrics is a pure function: a second call on
\* the same tables returns the same metrics in every field, and the call
\* leaves numpy's global generator as it found it.
C27_PureFunction ==
    [][(/\ op = "calculate_portfolio_metrics"
        /\ op' = "calculate_portfolio_metrics"
        /\ UNCHANGED <<projects_df, tasks_df, history_df>>)
       => /\ result' = result
          /\ np_random' = np_random]_vars

====
